---- MODULE Spec2Model ----
(***************************************************************************)
(* The Intcode virtual machine of day09 (decode / cache / execute engine,  *)
(* growable memory, input and output buffers) as a state machine, together *)
(* with a second, independently hashed instance of the same machine and a  *)
(* cache-less reference interpreter that are driven by the same caller.    *)
(*                                                                         *)
(* Representation.  memory is a sequence; the cell at address a is         *)
(* memory[a + 1].  A usize is represented by its 64-bit pattern read as a  *)
(* signed integer: a negative number x stands for the usize 2^64 + x, so   *)
(* the casts `as usize` / `as isize` keep the bit pattern and the unsigned  *)
(* comparisons of the source are ULt / UGt below.                          *)
(***************************************************************************)
EXTENDS Integers, Sequences, FiniteSets, TLC

VARIABLES program, program2, reference, cpu, build, last, pushed, consumed,
          consumed7, steps, m, ret, net

vars == <<program, program2, reference, cpu, build, last, pushed, consumed,
          consumed7, steps, m, ret, net>>

(***************************************************************************)
(* Bounds of the model.                                                    *)
(***************************************************************************)
MaxSteps == 16
MaxPushes == 2

\* values a caller pushes into the input buffer
InputVals == {4, 8, 303}

\* the programs a Program is constructed from
Programs ==
    { <<99>>,
      <<3, 9, 8, 9, 10, 9, 4, 9, 99, -1, 8>>,
      <<3, 9, 4, 9, 1001, 9, -1, 9, 1105, 112233, 2, 99>>,
      <<1, 9, 10, 3, 2, 3, 11, 0, 99, 30, 40, 50>>,
      <<1105, 1, 4, 5, 3, 1, 1105, 1, 1>>,
      <<3, 0, 4, 0, 99>>,
      <<3, 2>>,
      <<3, 3, 99>>,
      <<103, 0, 99>>,
      <<109, 5, 203, -3, 204, -3, 1101, 1, 1, 20, 4, 20, 4, 30, 99>>,
      <<4, 3, 99>>,
      <<109, -1, 204, 0, 99>>,
      <<109, -1000, 204, 0, 99>>,
      <<4, -1, 99>>,
      <<3, -2, 99>>,
      <<3, 1, 104, 7, 98>>,
      <<104, -5, 99>>,
      <<1101, 49, 49, 0, 4, 0, 99>>,
      <<11101, 2, 3, 0, 99>>,
      <<10001, 50, 0, 0, 99>>,
      <<3, 9, 7, 9, 10, 9, 4, 9, 99, -1, 8>>,
      <<109, 1, 204, 6, 1105, 1, 0, 10, 20, 30>>,
      <<1106, 1, 0, 6, 12, 13, 104, 5, 1105, 0, 3, 99, 0, 8>>,
      <<3, 15, 3, 16, 1002, 16, 10, 16, 1, 16, 15, 15, 4, 15, 99, 0, 0>> }

(***************************************************************************)
(* Integer helpers: Rust's `/` and `%` truncate toward zero.               *)
(***************************************************************************)
Quot(a, b) == IF a >= 0 THEN a \div b ELSE -((-a) \div b)

Rem(a, b) == a - b * Quot(a, b)

\* a cast that maps a negative value to a small usize (its magnitude)
AsUsize_Abs(x) == IF x < 0 THEN -x ELSE x

\* `x as usize`: the bit pattern is kept (negative x stands for 2^64 + x)
AsUsize(x) == x

\* unsigned `a > b` for a usize a and a length b (b >= 0)
UGt(a, b) == a < 0 \/ a > b

\* unsigned `a < b` for a usize a and a length b (b >= 0)
ULt(a, b) == a >= 0 /\ a < b

ResizePad == 1000

\* a resize that fills the new cells with 1 instead of 0
resize_Ones(mem, n) ==
    IF n <= Len(mem) THEN SubSeq(mem, 1, n)
    ELSE mem \o [i \in 1..(n - Len(mem)) |-> 1]

\* Vec::resize(new_len, 0)
resize(mem, n) ==
    IF n <= Len(mem) THEN SubSeq(mem, 1, n)
    ELSE mem \o [i \in 1..(n - Len(mem)) |-> 0]

(***************************************************************************)
(* Mode and Opcode values.                                                 *)
(***************************************************************************)
Positional(a) == [mode |-> "Positional", val |-> a]

Immediate(v) == [mode |-> "Immediate", val |-> v]

Relative(r) == [mode |-> "Relative", val |-> r]

None == [op |-> "None", params |-> <<>>]

Halt == [op |-> "Halt", params |-> <<>>]

\* HashMap::new()
EmptyMap == [a \in {} |-> None]

\* a len that counts the instruction word only
len_WordOnly(op) == 1

\* Opcode::len
len(op) ==
    CASE op.op \in {"In", "Out", "AdjustRelativeBase"} -> 2
      [] op.op \in {"JumpNonZero", "JumpZero"} -> 3
      [] op.op \in {"LessThan", "Equals", "Add", "Mul"} -> 4
      [] op.op = "Halt" -> 1

\* Program::from_input on an already parsed integer sequence
from_input(mem) ==
    [ip |-> 0, memory |-> mem, instructions |-> EmptyMap, input |-> <<>>,
     output |-> <<>>, halted |-> FALSE, relative_base |-> 0, pc |-> "idle"]

\* a panic unwinds out of run: the machine stops where it is
Panic(p) == [p EXCEPT !.pc = "panicked"]

(***************************************************************************)
(* Memory Store.  A heavy intermediate result is handed to a continuation  *)
(* operator as an argument (read -> read_at, write -> write_at -> ...), so *)
(* that it is computed once.                                               *)
(***************************************************************************)
\* the `if address > self.memory.len() { resize }` prologue of read and write.
\* A wrapped (negative) address makes `address + 1000` overflow: a debug
\* build panics there; a release build wraps, so that resize truncates or
\* extends to address + 1000 (when that is < 2^63) and the index panics.
\* a memory of fixed size: an access beyond the end fails
Grow_Never(p, address) ==
    [ok |-> address >= 0 /\ ULt(address, Len(p.memory)), p |-> p]

Grow(p, address) ==
    IF address < 0
    THEN IF build = "release" /\ address + ResizePad >= 0
         THEN [ok |-> FALSE,
               p |-> [p EXCEPT !.memory = resize(@, address + ResizePad)]]
         ELSE [ok |-> FALSE, p |-> p]
    ELSE IF UGt(address, Len(p.memory))
         THEN [ok |-> TRUE,
               p |-> [p EXCEPT !.memory = resize(@, address + ResizePad)]]
         ELSE [ok |-> ULt(address, Len(p.memory)), p |-> p]

\* `self.memory[address as usize]` after the prologue g
read_at(g, address) ==
    IF g.ok
    THEN [ok |-> TRUE, p |-> g.p, val |-> g.p.memory[address + 1]]
    ELSE [ok |-> FALSE, p |-> g.p, val |-> 0]

\* Program::read
read(p, address) == read_at(Grow(p, address), address)

(***************************************************************************)
(* Instruction Decoder.                                                    *)
(***************************************************************************)
\* the `match modeN { 0 => .., 1 => .., 2 => .., _ => unreachable!() }`
MkMode(mode, param) ==
    CASE mode = 0 -> Positional(AsUsize(param))
      [] mode = 1 -> Immediate(param)
      [] mode = 2 -> Relative(param)

OpName(opcode) ==
    CASE opcode = 1 -> "Add"
      [] opcode = 2 -> "Mul"
      [] opcode = 3 -> "In"
      [] opcode = 4 -> "Out"
      [] opcode = 5 -> "JumpNonZero"
      [] opcode = 6 -> "JumpZero"
      [] opcode = 7 -> "LessThan"
      [] opcode = 8 -> "Equals"
      [] opcode = 9 -> "AdjustRelativeBase"

\* self.instructions.insert(addr, op); Some(op)
Inserted(p, addr, op) ==
    [ok |-> TRUE,
     p |-> [p EXCEPT !.instructions =
               [a \in (DOMAIN @) \cup {addr} |-> IF a = addr THEN op ELSE @[a]]],
     op |-> op]

\* a panic inside lift
LiftPanic(p) == [ok |-> FALSE, p |-> p, op |-> None]

\* the `match opcode` of lift.  r1, r2, r3 are the reads of the operand
\* cells, taken in this order and only by the arms that have the operand;
\* a mode digit outside 0..2 of a decoded operand is the unreachable!().
lift_match(p, addr, mode3, mode2, mode1, opcode, r1, r2, r3) ==
    CASE opcode \in {1, 2, 7, 8} ->
           IF ~r1.ok THEN LiftPanic(r1.p)
           ELSE IF ~r2.ok THEN LiftPanic(r2.p)
           ELSE IF ~r3.ok THEN LiftPanic(r3.p)
           ELSE IF ~({mode1, mode2, mode3} \subseteq {0, 1, 2})
                THEN LiftPanic(r3.p)
           ELSE Inserted(r3.p, addr,
                         [op |-> OpName(opcode),
                          params |-> <<MkMode(mode1, r1.val),
                                       MkMode(mode2, r2.val),
                                       MkMode(mode3, r3.val)>>])
      [] opcode \in {3, 4, 9} ->
           IF ~r1.ok THEN LiftPanic(r1.p)
           ELSE IF mode1 \notin {0, 1, 2} THEN LiftPanic(r1.p)
           ELSE Inserted(r1.p, addr,
                         [op |-> OpName(opcode),
                          params |-> <<MkMode(mode1, r1.val)>>])
      [] opcode \in {5, 6} ->
           IF ~r1.ok THEN LiftPanic(r1.p)
           ELSE IF ~r2.ok THEN LiftPanic(r2.p)
           ELSE IF ~({mode1, mode2} \subseteq {0, 1, 2}) THEN LiftPanic(r2.p)
           ELSE Inserted(r2.p, addr,
                         [op |-> OpName(opcode),
                          params |-> <<MkMode(mode1, r1.val),
                                       MkMode(mode2, r2.val)>>])
      [] opcode = 99 -> Inserted(p, addr, Halt)
      [] OTHER -> [ok |-> TRUE, p |-> p, op |-> None]

\* the digits of the instruction word: mode3, mode2, mode1, opcode.  The
\* operand cells follow an in-range addr, so their reads are in range or
\* panic at the first cell past the end and never resize: each read sees p.
lift_word(p, addr, word) ==
    lift_match(p, addr,
               Quot(word, 10000),
               Quot(Rem(word, 10000), 1000),
               Quot(Rem(Rem(word, 10000), 1000), 100),
               Rem(Rem(Rem(word, 10000), 1000), 100),
               read(p, addr + 1), read(p, addr + 2), read(p, addr + 3))

\* Program::lift.  ok = FALSE is a panic; op = None is the None return.
lift(p, addr) ==
    IF ~ULt(addr, Len(p.memory)) THEN LiftPanic(p)
    ELSE lift_word(p, addr, p.memory[addr + 1])

(***************************************************************************)
(* Program::write.  The scan `for (start, op) in self.instructions.iter()` *)
(* stops at the first entry whose span holds the address; the iteration    *)
(* order of a HashMap is arbitrary, so which of several such entries is    *)
(* found is the choice `pick`.  cands is the set the scan can find.        *)
(***************************************************************************)
NoPick == -1

Spans(p, address) ==
    {start \in DOMAIN p.instructions :
        start <= address /\ address < start + len(p.instructions[start])}

\* a re-lift that keeps the old entry when lift gave None
relifted_Keeps(l, start, cands) ==
    [ok |-> l.ok, p |-> l.p, cands |-> cands]

\* `match new_instr`: the entry is replaced, or removed when lift gave None
relifted(l, start, cands) ==
    IF ~l.ok THEN [ok |-> FALSE, p |-> l.p, cands |-> cands]
    ELSE IF l.op # None THEN [ok |-> TRUE, p |-> l.p, cands |-> cands]
    ELSE [ok |-> TRUE,
          p |-> [l.p EXCEPT !.instructions =
                    [a \in (DOMAIN @) \ {start} |-> @[a]]],
          cands |-> cands]

\* a write that leaves the cache as it is
write_scan_NoRelift(q, cands, pick) == [ok |-> TRUE, p |-> q, cands |-> cands]

\* the scan and `if let Some(start) = modified` on the machine q after the
\* store
write_scan(q, cands, pick) ==
    IF pick \notin cands THEN [ok |-> TRUE, p |-> q, cands |-> cands]
    ELSE relifted(lift(q, pick), pick, cands)

\* `self.memory[address] = value` after the prologue g, then the scan
write_at(g, address, value, pick) ==
    IF ~g.ok THEN [ok |-> FALSE, p |-> g.p, cands |-> {}]
    ELSE write_scan([g.p EXCEPT !.memory[address + 1] = value],
                    Spans(g.p, address), pick)

\* Program::write
write(p, address, value, pick) ==
    write_at(Grow(p, address), address, value, pick)

(***************************************************************************)
(* I/O Channel.                                                            *)
(***************************************************************************)
\* read_input taking the value pushed last (Vec::pop) instead of the first
read_input_Lifo(p) ==
    IF Len(p.input) = 0
    THEN [some |-> FALSE, p |-> p, val |-> 0]
    ELSE [some |-> TRUE,
          p |-> [p EXCEPT !.input = SubSeq(@, 1, Len(@) - 1)],
          val |-> p.input[Len(p.input)]]

\* Program::read_input: some = FALSE is the None return
read_input(p) ==
    IF Len(p.input) = 0
    THEN [some |-> FALSE, p |-> p, val |-> 0]
    ELSE [some |-> TRUE, p |-> [p EXCEPT !.input = Tail(@)],
          val |-> Head(p.input)]

\* write_output inserting at the head of the buffer
write_output_Front(p, value) == [p EXCEPT !.output = <<value>> \o @]

\* Program::write_output
write_output(p, value) == [p EXCEPT !.output = Append(@, value)]

(***************************************************************************)
(* Execution Engine: the arms of the `match opcode` in Program::run.  Each *)
(* returns the machine after the arm and the candidates of its write.      *)
(***************************************************************************)
\* an operand resolution that reads a Relative operand as an absolute address
Value_IgnoresBase(p, param) ==
    CASE param.mode = "Positional" -> read(p, param.val)
      [] param.mode = "Immediate" -> [ok |-> TRUE, p |-> p, val |-> param.val]
      [] param.mode = "Relative" -> read(p, AsUsize(param.val))

\* operand resolution: the `match param { Positional / Immediate / Relative }`
Value(p, param) ==
    CASE param.mode = "Positional" -> read(p, param.val)
      [] param.mode = "Immediate" -> [ok |-> TRUE, p |-> p, val |-> param.val]
      [] param.mode = "Relative" ->
             read(p, AsUsize(p.relative_base + param.val))

\* a destination resolution that takes an Immediate operand as the address
DestAddr_ImmAsAddr(p, param) ==
    CASE param.mode = "Positional" -> [ok |-> TRUE, addr |-> param.val]
      [] param.mode = "Immediate" -> [ok |-> TRUE, addr |-> param.val]
      [] param.mode = "Relative" ->
             [ok |-> TRUE, addr |-> AsUsize(p.relative_base + param.val)]

\* destination resolution: an Immediate destination panics
DestAddr(p, param) ==
    CASE param.mode = "Positional" -> [ok |-> TRUE, addr |-> param.val]
      [] param.mode = "Immediate" -> [ok |-> FALSE, addr |-> 0]
      [] param.mode = "Relative" ->
             [ok |-> TRUE, addr |-> AsUsize(p.relative_base + param.val)]

Fail(p) == [p |-> Panic(p), cands |-> {}]

\* `self.write(dest, ..); self.ip += n;` with the outcome w of the write
Written(w, n) ==
    IF ~w.ok THEN [p |-> Panic(w.p), cands |-> w.cands]
    ELSE [p |-> [w.p EXCEPT !.ip = @ + n], cands |-> w.cands]

\* an Add that subtracts
AddResult_Subtracts(value1, value2) == value1 - value2

AddResult(value1, value2) == value1 + value2

\* a Mul that adds
MulResult_Adds(value1, value2) == value1 + value2

MulResult(value1, value2) == value1 * value2

\* a LessThan that also holds for equal values
LessThanResult_OrEqual(value1, value2) == IF value1 <= value2 THEN 1 ELSE 0

LessThanResult(value1, value2) == IF value1 < value2 THEN 1 ELSE 0

\* an Equals that also holds for 7 and 8
EqualsResult_Near(value1, value2) ==
    IF value1 = value2 \/ value1 + 1 = value2 THEN 1 ELSE 0

EqualsResult(value1, value2) == IF value1 = value2 THEN 1 ELSE 0

\* the `result` / `value` each of the four storing arms computes
StoreResult(op, value1, value2) ==
    CASE op.op = "Add" -> AddResult(value1, value2)
      [] op.op = "Mul" -> MulResult(value1, value2)
      [] op.op = "LessThan" -> LessThanResult(value1, value2)
      [] op.op = "Equals" -> EqualsResult(value1, value2)

\* `let dest = match dest {..}` and the store, with value1 and value2 read
ExecStore_dest(op, pick, v1, v2, d) ==
    IF ~d.ok THEN Fail(v2.p)
    ELSE Written(write(v2.p, d.addr, StoreResult(op, v1.val, v2.val), pick), 4)

\* `let value2 = match param2 {..}` done
ExecStore_v2(op, pick, v1, v2) ==
    IF ~v2.ok THEN Fail(v2.p)
    ELSE ExecStore_dest(op, pick, v1, v2, DestAddr(v2.p, op.params[3]))

\* `let value1 = match param1 {..}` done
ExecStore_v1(op, pick, v1) ==
    IF ~v1.ok THEN Fail(v1.p)
    ELSE ExecStore_v2(op, pick, v1, Value(v1.p, op.params[2]))

\* the Add, Mul, LessThan and Equals arms (the same shape in the source)
ExecStore(p, op, pick) == ExecStore_v1(op, pick, Value(p, op.params[1]))

\* the In arm with the outcome i of read_input
ExecIn_input(p, op, pick, i) ==
    IF ~i.some THEN [p |-> [p EXCEPT !.pc = "idle"], cands |-> {}]
    ELSE IF ~DestAddr(i.p, op.params[1]).ok THEN Fail(i.p)
    ELSE Written(write(i.p, DestAddr(i.p, op.params[1]).addr, i.val, pick), 2)

\* the In arm stepping over the instruction when it finds no input
ExecIn_SkipsWhenStarved(p, op, pick) ==
    IF Len(p.input) = 0
    THEN [p |-> [p EXCEPT !.pc = "idle", !.ip = @ + 2], cands |-> {}]
    ELSE IF ~DestAddr(p, op.params[1]).ok THEN Fail(read_input(p).p)
    ELSE Written(write(read_input(p).p, DestAddr(p, op.params[1]).addr,
                       read_input(p).val, pick), 2)

\* Opcode::In: with an empty input buffer the loop breaks and run returns
ExecIn(p, op, pick) == ExecIn_input(p, op, pick, read_input(p))

\* the Out arm with the operand value v
ExecOut_value(v) ==
    IF ~v.ok THEN Fail(v.p)
    ELSE [p |-> [write_output(v.p, v.val) EXCEPT !.ip = @ + 2], cands |-> {}]

\* the Out arm returning to the caller after each output
ExecOut_Returns(p, op) ==
    [p |-> [ExecOut_value(Value(p, op.params[1])).p EXCEPT
               !.pc = IF @ = "running" THEN "idle" ELSE @],
     cands |-> {}]

\* Opcode::Out
ExecOut(p, op) == ExecOut_value(Value(p, op.params[1]))

\* a jump that is taken whatever value1 is
Taken_Always(op, value1) == TRUE

\* `if value1 != 0` of JumpNonZero, `if value1 == 0` of JumpZero
Taken(op, value1) ==
    IF op.op = "JumpNonZero" THEN value1 # 0 ELSE value1 = 0

\* jump arms that take the first operand as the target
ExecJump_v2_ToFirst(op, v1, v2) ==
    IF ~v2.ok THEN Fail(v2.p)
    ELSE IF Taken(op, v1.val)
         THEN [p |-> [v2.p EXCEPT !.ip = AsUsize(v1.val)], cands |-> {}]
         ELSE [p |-> [v2.p EXCEPT !.ip = @ + 3], cands |-> {}]

\* the jump arms with value1 and value2 read
ExecJump_v2(op, v1, v2) ==
    IF ~v2.ok THEN Fail(v2.p)
    ELSE IF Taken(op, v1.val)
         THEN [p |-> [v2.p EXCEPT !.ip = AsUsize(v2.val)], cands |-> {}]
         ELSE [p |-> [v2.p EXCEPT !.ip = @ + 3], cands |-> {}]

\* the jump arms with value1 read
ExecJump_v1(op, v1) ==
    IF ~v1.ok THEN Fail(v1.p)
    ELSE ExecJump_v2(op, v1, Value(v1.p, op.params[2]))

\* the JumpNonZero and JumpZero arms (the same shape in the source)
ExecJump(p, op) == ExecJump_v1(op, Value(p, op.params[1]))

\* an AdjustRelativeBase arm that replaces the base by the operand value
ExecAdjust_value_Sets(v) ==
    IF ~v.ok THEN Fail(v.p)
    ELSE [p |-> [v.p EXCEPT !.relative_base = v.val, !.ip = @ + 2],
          cands |-> {}]

\* the AdjustRelativeBase arm with the operand value v
ExecAdjust_value(v) ==
    IF ~v.ok THEN Fail(v.p)
    ELSE [p |-> [v.p EXCEPT !.relative_base = @ + v.val, !.ip = @ + 2],
          cands |-> {}]

\* Opcode::AdjustRelativeBase
ExecAdjustRelativeBase(p, op) == ExecAdjust_value(Value(p, op.params[1]))

\* the Halt arm advancing the instruction pointer past the Halt
ExecHalt_Advances(p) ==
    [p |-> [p EXCEPT !.halted = TRUE, !.pc = "idle", !.ip = @ + 1],
     cands |-> {}]

\* Opcode::Halt
ExecHalt(p) == [p |-> [p EXCEPT !.halted = TRUE, !.pc = "idle"], cands |-> {}]

\* `None => match self.lift(self.ip)` with the outcome l of lift
Fetch_miss(l) == [ok |-> l.ok /\ l.op # None, p |-> l.p, op |-> l.op]

\* the fetch at the head of the loop: the cached entry, or lift on a miss
Fetch(p) ==
    IF p.ip \in DOMAIN p.instructions
    THEN [ok |-> TRUE, p |-> p, op |-> p.instructions[p.ip]]
    ELSE Fetch_miss(lift(p, p.ip))

Dispatch(p, op, pick) ==
    CASE op.op \in {"Add", "Mul", "LessThan", "Equals"} ->
             ExecStore(p, op, pick)
      [] op.op = "In" -> ExecIn(p, op, pick)
      [] op.op = "Out" -> ExecOut(p, op)
      [] op.op \in {"JumpNonZero", "JumpZero"} -> ExecJump(p, op)
      [] op.op = "AdjustRelativeBase" -> ExecAdjustRelativeBase(p, op)
      [] op.op = "Halt" -> ExecHalt(p)

\* the outcome x of the dispatched arm, with the instruction op it executed
Ran(x, op) == [p |-> x.p, cands |-> x.cands, op |-> op]

\* a loop body that steps over a word it cannot decode
RunIter_fetched_Skips(f, pick) ==
    IF ~f.ok THEN [p |-> [f.p EXCEPT !.ip = @ + 1], cands |-> {}, op |-> None]
    ELSE Ran(Dispatch(f.p, f.op, pick), f.op)

\* the loop body with the fetched instruction f
RunIter_fetched(f, pick) ==
    IF ~f.ok THEN [p |-> Panic(f.p), cands |-> {}, op |-> None]
    ELSE Ran(Dispatch(f.p, f.op, pick), f.op)

\* one iteration of the loop of Program::run
RunIter(p, pick) == RunIter_fetched(Fetch(p), pick)

\* the choices the scan of write has in this iteration
PickOK(r, pick) == IF r.cands = {} THEN pick = NoPick ELSE pick \in r.cands

PickSet(p) == DOMAIN p.instructions \cup {p.ip, NoPick}

(***************************************************************************)
(* The reference interpreter: the same engine without instruction cache.   *)
(* Every fetch decodes the current memory and a write re-lifts nothing.    *)
(***************************************************************************)
NoCache(p) == [p EXCEPT !.instructions = EmptyMap]

RefIter(r) == NoCache(RunIter(NoCache(r), NoPick).p)

(***************************************************************************)
(* The day07 VM (the one the amplifier orchestrator drives).  Its Opcode   *)
(* has one variant per combination of operand kinds (AddAIA, OutI, ...):   *)
(* here op is the instruction, modes the A (address) / I (immediate)       *)
(* letters of the variant and params its fields.  Memory never grows.      *)
(***************************************************************************)
Halt7 == [op |-> "Halt", modes |-> <<>>, params |-> <<>>]

None7 == [op |-> "None", modes |-> <<>>, params |-> <<>>]

EmptyMap7 == [a \in {} |-> None7]

\* Opcode::len (day07)
len7(op) ==
    CASE op.op \in {"In", "Out"} -> 2
      [] op.op \in {"JumpNonZero", "JumpZero"} -> 3
      [] op.op \in {"LessThan", "Equals", "Add", "Mul"} -> 4
      [] op.op = "Halt" -> 1

\* Program::from_input (day07)
from_input7(mem) ==
    [ip |-> 0, memory |-> mem, instructions |-> EmptyMap7, input |-> <<>>,
     output |-> <<>>, halted |-> FALSE, pc |-> "idle"]

\* Program::read (day07): assert!(address <= len), then the index
read7(p, address) ==
    IF ULt(address, Len(p.memory))
    THEN [ok |-> TRUE, val |-> p.memory[address + 1]]
    ELSE [ok |-> FALSE, val |-> 0]

Three7 == {1, 1001, 101, 1101, 2, 1002, 102, 1102,
           7, 107, 1007, 1107, 8, 108, 1008, 1108}

One7 == {3, 103, 4, 104}

Two7 == {5, 105, 1005, 1105, 6, 106, 1006, 1106}

ImmDest7 == {10001, 10002, 11001, 11002, 11101, 11102, 10101, 10102}

\* the operand letter a variant name carries for a mode digit
Letter7(opcode, place) == IF (opcode \div place) % 10 = 1 THEN "I" ELSE "A"

OpName7(opcode) ==
    CASE opcode % 100 = 1 -> "Add"
      [] opcode % 100 = 2 -> "Mul"
      [] opcode % 100 = 3 -> "In"
      [] opcode % 100 = 4 -> "Out"
      [] opcode % 100 = 5 -> "JumpNonZero"
      [] opcode % 100 = 6 -> "JumpZero"
      [] opcode % 100 = 7 -> "LessThan"
      [] opcode % 100 = 8 -> "Equals"

\* Program::lift (day07).  ok = FALSE is a panic; op = None7 the None return.
lift7(p, addr) ==
    IF ~ULt(addr, Len(p.memory))
    THEN [ok |-> FALSE, p |-> p, op |-> None7]
    ELSE
    LET opcode == p.memory[addr + 1]
        r1     == read7(p, addr + 1)
        r2     == read7(p, addr + 2)
        r3     == read7(p, addr + 3)
        ins(op) == [ok |-> TRUE,
                    p |-> [p EXCEPT !.instructions =
                              [a \in (DOMAIN @) \cup {addr} |->
                                  IF a = addr THEN op ELSE @[a]]],
                    op |-> op]
        fail == [ok |-> FALSE, p |-> p, op |-> None7]
    IN  CASE opcode \in Three7 ->
               IF ~r1.ok \/ ~r2.ok \/ ~r3.ok THEN fail
               ELSE IF ~(r3.val >= 0) THEN fail
               ELSE ins([op |-> OpName7(opcode),
                         modes |-> <<Letter7(opcode, 100),
                                     Letter7(opcode, 1000), "A">>,
                         params |-> <<r1.val, r2.val, AsUsize(r3.val)>>])
          [] opcode \in One7 ->
               IF ~r1.ok THEN fail
               ELSE IF ~(r1.val >= 0) THEN fail
               ELSE IF opcode = 103 THEN fail
               ELSE ins([op |-> OpName7(opcode),
                         modes |-> <<Letter7(opcode, 100)>>,
                         params |-> <<r1.val>>])
          [] opcode \in Two7 ->
               IF ~r1.ok \/ ~r2.ok THEN fail
               ELSE ins([op |-> OpName7(opcode),
                         modes |-> <<Letter7(opcode, 100),
                                     Letter7(opcode, 1000)>>,
                         params |-> <<r1.val, r2.val>>])
          [] opcode \in ImmDest7 -> fail
          [] opcode = 99 -> ins(Halt7)
          [] OTHER -> [ok |-> TRUE, p |-> p, op |-> None7]

Spans7(p, address) ==
    {start \in DOMAIN p.instructions :
        start <= address /\ address < start + len7(p.instructions[start])}

\* `match new_instr` (day07)
relifted7(l, start, cands) ==
    IF ~l.ok THEN [ok |-> FALSE, p |-> l.p, cands |-> cands]
    ELSE IF l.op # None7 THEN [ok |-> TRUE, p |-> l.p, cands |-> cands]
    ELSE [ok |-> TRUE,
          p |-> [l.p EXCEPT !.instructions =
                    [a \in (DOMAIN @) \ {start} |-> @[a]]],
          cands |-> cands]

\* the scan and `if let Some(start) = modified` (day07)
write_scan7(q, cands, pick) ==
    IF pick \notin cands THEN [ok |-> TRUE, p |-> q, cands |-> cands]
    ELSE relifted7(lift7(q, pick), pick, cands)

\* Program::write (day07): assert!(address <= len), the store, the scan
write7(p, address, value, pick) ==
    IF ~ULt(address, Len(p.memory))
    THEN [ok |-> FALSE, p |-> p, cands |-> {}]
    ELSE write_scan7([p EXCEPT !.memory[address + 1] = value],
                     Spans7(p, address), pick)

\* read_input of day07 taking the value pushed last instead of the first
read_input7_Lifo(p) ==
    IF Len(p.input) = 0
    THEN [some |-> FALSE, p |-> p, val |-> 0]
    ELSE [some |-> TRUE,
          p |-> [p EXCEPT !.input = SubSeq(@, 1, Len(@) - 1)],
          val |-> p.input[Len(p.input)]]

\* Program::read_input (day07)
read_input7(p) ==
    IF Len(p.input) = 0
    THEN [some |-> FALSE, p |-> p, val |-> 0]
    ELSE [some |-> TRUE, p |-> [p EXCEPT !.input = Tail(@)],
          val |-> Head(p.input)]

\* Program::write_output (day07)
write_output7(p, value) == [p EXCEPT !.output = Append(@, value)]

\* an A field is read from memory, an I field is the value itself
Value7(p, letter, param) ==
    IF letter = "I" THEN [ok |-> TRUE, val |-> param]
    ELSE read7(p, AsUsize(param))

\* the Add*, Mul*, LessThan* and Equals* arms
ExecStore7(p, op, pick) ==
    LET v1 == Value7(p, op.modes[1], op.params[1])
        v2 == Value7(p, op.modes[2], op.params[2])
    IN  IF ~v1.ok \/ ~v2.ok THEN Fail(p)
        ELSE Written(write7(p, op.params[3],
                            StoreResult(op, v1.val, v2.val), pick), 4)

\* Opcode::InA
ExecIn7(p, op, pick) ==
    LET i == read_input7(p)
    IN  IF ~i.some THEN [p |-> [p EXCEPT !.pc = "idle"], cands |-> {}]
        ELSE Written(write7(i.p, op.params[1], i.val, pick), 2)

\* Opcode::OutA and Opcode::OutI
ExecOut7(p, op) ==
    LET v == Value7(p, op.modes[1], op.params[1])
    IN  IF ~v.ok THEN Fail(p)
        ELSE [p |-> [write_output7(p, v.val) EXCEPT !.ip = @ + 2],
              cands |-> {}]

\* the JumpNonZero* and JumpZero* arms
ExecJump7(p, op) ==
    LET v1 == Value7(p, op.modes[1], op.params[1])
        v2 == Value7(p, op.modes[2], op.params[2])
        taken == IF op.op = "JumpNonZero" THEN v1.val # 0 ELSE v1.val = 0
    IN  IF ~v1.ok \/ ~v2.ok THEN Fail(p)
        ELSE IF taken
             THEN [p |-> [p EXCEPT !.ip = AsUsize(v2.val)], cands |-> {}]
             ELSE [p |-> [p EXCEPT !.ip = @ + 3], cands |-> {}]

\* Opcode::Halt (day07)
ExecHalt7(p) == [p |-> [p EXCEPT !.halted = TRUE, !.pc = "idle"], cands |-> {}]

\* `None => match self.lift(self.ip)` (day07) with the outcome l of lift
Fetch_miss7(l) == [ok |-> l.ok /\ l.op # None7, p |-> l.p, op |-> l.op]

Fetch7(p) ==
    IF p.ip \in DOMAIN p.instructions
    THEN [ok |-> TRUE, p |-> p, op |-> p.instructions[p.ip]]
    ELSE Fetch_miss7(lift7(p, p.ip))

Dispatch7(p, op, pick) ==
    CASE op.op \in {"Add", "Mul", "LessThan", "Equals"} ->
             ExecStore7(p, op, pick)
      [] op.op = "In" -> ExecIn7(p, op, pick)
      [] op.op = "Out" -> ExecOut7(p, op)
      [] op.op \in {"JumpNonZero", "JumpZero"} -> ExecJump7(p, op)
      [] op.op = "Halt" -> ExecHalt7(p)

\* one iteration of the loop of Program::run (day07)
RunIter_fetched7(f, pick) ==
    IF ~f.ok THEN [p |-> Panic(f.p), cands |-> {}, op |-> None7]
    ELSE Ran(Dispatch7(f.p, f.op, pick), f.op)

RunIter7(p, pick) == RunIter_fetched7(Fetch7(p), pick)

(***************************************************************************)
(* The machine of day05.  Its read, write, lift and every arm of run but   *)
(* In and Halt are the code of day07 word for word; a day05 Program has no *)
(* halted field, its read_input takes the value pushed last and aborts on  *)
(* an empty queue, and its Halt only leaves the loop.                      *)
(***************************************************************************)
\* Program::from_input (day05)
from_input5(mem) ==
    [ip |-> 0, memory |-> mem, instructions |-> EmptyMap7, input |-> <<>>,
     output |-> <<>>, pc |-> "idle"]

\* Program::read_input (day05): `self.input.pop().expect(..)`
read_input5(p) ==
    IF Len(p.input) = 0
    THEN [some |-> FALSE, p |-> p, val |-> 0]
    ELSE [some |-> TRUE,
          p |-> [p EXCEPT !.input = SubSeq(@, 1, Len(@) - 1)],
          val |-> p.input[Len(p.input)]]

\* Opcode::InA (day05) with the outcome i of read_input
ExecIn5_input(i, op, pick) ==
    IF ~i.some THEN [p |-> Panic(i.p), cands |-> {}]
    ELSE Written(write7(i.p, op.params[1], i.val, pick), 2)

\* Opcode::InA (day05)
ExecIn5(p, op, pick) == ExecIn5_input(read_input5(p), op, pick)

\* `Opcode::Halt => { break; }`
ExecHalt5(p) == [p |-> [p EXCEPT !.pc = "idle"], cands |-> {}]

Dispatch5(p, op, pick) ==
    CASE op.op \in {"Add", "Mul", "LessThan", "Equals"} ->
             ExecStore7(p, op, pick)
      [] op.op = "In" -> ExecIn5(p, op, pick)
      [] op.op = "Out" -> ExecOut7(p, op)
      [] op.op \in {"JumpNonZero", "JumpZero"} -> ExecJump7(p, op)
      [] op.op = "Halt" -> ExecHalt5(p)

\* one iteration of the loop of Program::run (day05)
RunIter_fetched5(f, pick) ==
    IF ~f.ok THEN [p |-> Panic(f.p), cands |-> {}, op |-> None7]
    ELSE Ran(Dispatch5(f.p, f.op, pick), f.op)

RunIter5(p, pick) == RunIter_fetched5(Fetch7(p), pick)

(***************************************************************************)
(* The machine of day02: memory of usize cells, the opcodes Add, Mul and   *)
(* Halt with positional operands, an instruction cache that write never    *)
(* touches, and index panics on every access outside memory.               *)
(***************************************************************************)
Halt2 == [op |-> "Halt", params |-> <<>>]

\* Program::from_input (day02): `x.parse::<usize>().unwrap()` aborts on a
\* negative number
from_input2(mem) ==
    IF \E k \in DOMAIN mem : mem[k] < 0
    THEN [ip |-> 0, memory |-> <<>>, instructions |-> [a \in {} |-> Halt2],
          pc |-> "panicked"]
    ELSE [ip |-> 0, memory |-> mem, instructions |-> [a \in {} |-> Halt2],
          pc |-> "idle"]

\* the index `self.memory[address]` of read, write and lift is in range
InRange2(p, address) == address >= 0 /\ address < Len(p.memory)

\* Program::lift (day02): ok = FALSE is a panic
lift2(p, addr) ==
    IF ~InRange2(p, addr) THEN [ok |-> FALSE, p |-> p, op |-> Halt2]
    ELSE IF p.memory[addr + 1] \in {1, 2}
    THEN IF \A k \in 1..3 : InRange2(p, addr + k)
         THEN Inserted(p, addr,
                  [op |-> IF p.memory[addr + 1] = 1 THEN "Add" ELSE "Mul",
                   params |-> <<p.memory[addr + 2], p.memory[addr + 3],
                                p.memory[addr + 4]>>])
         ELSE [ok |-> FALSE, p |-> p, op |-> Halt2]
    ELSE IF p.memory[addr + 1] = 99 THEN Inserted(p, addr, Halt2)
    ELSE [ok |-> FALSE, p |-> p, op |-> Halt2]

\* the fetch at the head of the loop of Program::run (day02)
Fetch2(p) ==
    IF p.ip \in DOMAIN p.instructions
    THEN [ok |-> TRUE, p |-> p, op |-> p.instructions[p.ip]]
    ELSE lift2(p, p.ip)

\* the arms of Program::run (day02) with the fetched instruction f
RunIter_fetched2(f) ==
    IF ~f.ok THEN Panic(f.p)
    ELSE IF f.op.op = "Halt" THEN [f.p EXCEPT !.pc = "idle"]
    ELSE IF \A k \in 1..3 : InRange2(f.p, f.op.params[k])
    THEN [f.p EXCEPT
             !.memory[f.op.params[3] + 1] =
                 StoreResult(f.op, f.p.memory[f.op.params[1] + 1],
                             f.p.memory[f.op.params[2] + 1]),
             !.ip = @ + 4]
    ELSE Panic(f.p)

\* one iteration of the loop of Program::run (day02)
RunIter2(p) == RunIter_fetched2(Fetch2(p))

(***************************************************************************)
(* The caller constructs the machines from one program text, pushes input  *)
(* and calls run; run executes iteration by iteration.  program2,          *)
(* reference and the day07 machine cpu receive the same pushes and calls.  *)
(***************************************************************************)
NoLast(p) == [kind |-> "init", op |-> None, pre |-> p,
              susp |-> FALSE, resumed |-> FALSE, over |-> FALSE]

\* an entry of the cache starts inside the span of another entry
Overlapping(instructions) ==
    \E a, b \in DOMAIN instructions :
        a < b /\ b < a + len(instructions[a])

\* the cache of p as the arms of run see it once op has been fetched at ip
Fetched(p, op) ==
    [a \in DOMAIN p.instructions \cup {p.ip} |->
        IF a = p.ip THEN op ELSE p.instructions[a]]

\* spans of cached instructions have overlapped before, while or after the
\* loop iteration that executed op on p and left q
Overlapped(p, op, q) ==
    \/ last.over
    \/ op # None /\ Overlapping(Fetched(p, op))
    \/ Overlapping(q.instructions)

NoRet == [kind |-> "init", address |-> 0, value |-> 0, ok |-> TRUE,
          val |-> 0, op |-> None, pre |-> from_input(<<>>)]

\* no amplifier network has been built
NoNet == [pc |-> "off"]

Init ==
    /\ \E prog \in Programs :
          /\ program = from_input(prog)
          /\ program2 = from_input(prog)
          /\ reference = from_input(prog)
          /\ cpu = from_input7(prog)
    /\ build \in {"debug", "release"}
    /\ last = NoLast(program)
    /\ pushed = <<>>
    /\ consumed = <<>>
    /\ consumed7 = <<>>
    /\ steps = 0
    /\ m = from_input(<<>>)
    /\ ret = NoRet
    /\ net = NoNet

Running(p) == p.pc = "running"

\* no machine is inside run and one at least can still be driven
CallerHasControl ==
    /\ ~Running(program) /\ ~Running(cpu)
    /\ program.pc = "idle" \/ cpu.pc = "idle"

Push(p, v) == IF p.pc = "idle" THEN [p EXCEPT !.input = Append(@, v)] ELSE p

\* program.input.push(v)
PushInput ==
    /\ CallerHasControl
    /\ Len(pushed) < MaxPushes
    /\ \E v \in InputVals :
          /\ program' = Push(program, v)
          /\ program2' = Push(program2, v)
          /\ reference' = Push(reference, v)
          /\ cpu' = Push(cpu, v)
          /\ pushed' = Append(pushed, v)
          /\ last' = [kind |-> "push", op |-> None, pre |-> program,
                      susp |-> last.susp, resumed |-> FALSE,
                      over |-> last.over]
    /\ UNCHANGED <<build, consumed, consumed7, steps, m, ret, net>>

\* an entry into run that clears the halted flag
Enter_ClearsHalted(p) ==
    IF p.pc = "idle" THEN [p EXCEPT !.pc = "running", !.halted = FALSE] ELSE p

Enter(p) == IF p.pc = "idle" THEN [p EXCEPT !.pc = "running"] ELSE p

\* program.run(): control enters the loop
CallRun ==
    /\ CallerHasControl
    /\ steps < MaxSteps
    /\ program' = Enter(program)
    /\ program2' = Enter(program2)
    /\ reference' = Enter(reference)
    /\ cpu' = Enter(cpu)
    /\ last' = [kind |-> "call", op |-> None, pre |-> program,
                susp |-> last.susp, resumed |-> FALSE, over |-> last.over]
    /\ UNCHANGED <<build, pushed, consumed, consumed7, steps, m, ret, net>>

\* the value an executed In stored, read back from the destination cell
Stored(pre, op, post) ==
    post.memory[DestAddr(pre, op.params[1]).addr + 1]

\* one loop iteration in every machine that is inside run
Step ==
    /\ Running(program) \/ Running(cpu)
    /\ steps < MaxSteps
    /\ \E pick \in PickSet(program) :
          IF Running(program)
          THEN \E r \in {RunIter(program, pick)} :
                   /\ PickOK(r, pick)
                   /\ program' = r.p
                   /\ last' = [kind |-> "iter", op |-> r.op, pre |-> program,
                               susp |-> r.op.op = "In" /\ program.input = <<>>,
                               resumed |-> last.susp,
                               over |-> Overlapped(program, r.op, r.p)]
                   /\ consumed' =
                         IF r.op.op = "In" /\ Running(r.p)
                         THEN Append(consumed, Stored(program, r.op, r.p))
                         ELSE consumed
          ELSE pick = NoPick /\ UNCHANGED <<program, last, consumed>>
    /\ \E pick2 \in PickSet(program2) :
          IF Running(program2)
          THEN \E r2 \in {RunIter(program2, pick2)} :
                   PickOK(r2, pick2) /\ program2' = r2.p
          ELSE pick2 = NoPick /\ program2' = program2
    /\ reference' = IF Running(reference) THEN RefIter(reference)
                    ELSE reference
    /\ \E pick7 \in PickSet(cpu) :
          IF Running(cpu)
          THEN \E r7 \in {RunIter7(cpu, pick7)} :
                   /\ PickOK(r7, pick7)
                   /\ cpu' = r7.p
                   /\ consumed7' =
                         IF r7.op.op = "In" /\ Running(r7.p)
                         THEN Append(consumed7, r7.p.memory[r7.op.params[1] + 1])
                         ELSE consumed7
          ELSE pick7 = NoPick /\ UNCHANGED <<cpu, consumed7>>
    /\ steps' = steps + 1
    /\ UNCHANGED <<build, pushed, m, ret, net>>

Next == PushInput \/ CallRun \/ Step

Spec == Init /\ [][Next]_vars

(***************************************************************************)
(* The Memory Store and the decoder called directly: a caller applies the  *)
(* public read, write and lift of a Program m to addresses below, at and   *)
(* beyond the current memory length.                                       *)
(***************************************************************************)
MaxCalls == 3

MemInits == {<<>>, <<99>>, <<3, 0>>, <<1101, 1, 1, 0, 99>>}

MemVals == {0, 7, 99}

MemAddrs(mm) == {0, 1, 2} \cup {Len(mm.memory) + d : d \in 0..1}

MemInit ==
    /\ \E mem \in MemInits : m = from_input(mem)
    /\ build \in {"debug", "release"}
    /\ ret = NoRet
    /\ steps = 0
    /\ program = from_input(<<99>>)
    /\ program2 = from_input(<<99>>)
    /\ reference = from_input(<<99>>)
    /\ cpu = from_input7(<<99>>)
    /\ last = NoLast(program)
    /\ pushed = <<>>
    /\ consumed = <<>>
    /\ consumed7 = <<>>
    /\ net = NoNet

MemFrame == UNCHANGED <<program, program2, reference, cpu, build, last,
                        pushed, consumed, consumed7, net>>

\* m.read(a)
MemRead ==
    /\ m.pc = "idle"
    /\ steps < MaxCalls
    /\ \E a \in MemAddrs(m) :
          \E r \in {read(m, a)} :
              /\ m' = IF r.ok THEN r.p ELSE Panic(r.p)
              /\ ret' = [kind |-> "read", address |-> a, value |-> 0,
                         ok |-> r.ok, val |-> r.val, op |-> None, pre |-> m]
    /\ steps' = steps + 1
    /\ MemFrame

\* m.write(a, v)
MemWrite ==
    /\ m.pc = "idle"
    /\ steps < MaxCalls
    /\ \E a \in MemAddrs(m), v \in MemVals, pick \in PickSet(m) :
          \E w \in {write(m, a, v, pick)} :
              /\ PickOK(w, pick)
              /\ m' = IF w.ok THEN w.p ELSE Panic(w.p)
              /\ ret' = [kind |-> "write", address |-> a, value |-> v,
                         ok |-> w.ok, val |-> 0, op |-> None, pre |-> m]
    /\ steps' = steps + 1
    /\ MemFrame

\* m.lift(a)
MemLift ==
    /\ m.pc = "idle"
    /\ steps < MaxCalls
    /\ \E a \in MemAddrs(m) :
          \E l \in {lift(m, a)} :
              /\ m' = IF l.ok THEN l.p ELSE Panic(l.p)
              /\ ret' = [kind |-> "lift", address |-> a, value |-> 0,
                         ok |-> l.ok, val |-> 0, op |-> l.op, pre |-> m]
    /\ steps' = steps + 1
    /\ MemFrame

MemNext == MemRead \/ MemWrite \/ MemLift

MemSpec == MemInit /\ [][MemNext]_vars

(***************************************************************************)
(* The decoder applied to instruction words: a Program is built from one   *)
(* instruction word followed by three operand cells and a trailing cell,   *)
(* and the caller applies lift to its addresses.                           *)
(***************************************************************************)
\* every word of at most five digits with an instruction in its low two
\* digits and mode digits 0..2, words with a sixth digit, words with a mode
\* digit above 2, words with no instruction in their low two digits and
\* negative words
Words ==
    {m3 * 10000 + m2 * 1000 + m1 * 100 + o :
        m1 \in 0..2, m2 \in 0..2, m3 \in 0..2, o \in (1..9) \cup {99}}
    \cup {100001, 120002, 101105, 100099}
    \cup {301, 30001, 3005, 304, 399, 0, 10, 98, 1100, -1, -3, -99, -1101}

LiftInit ==
    /\ \E w \in Words : m = from_input(<<w, 7, -2, 5, 0>>)
    /\ build \in {"debug", "release"}
    /\ ret = NoRet
    /\ steps = 0
    /\ program = from_input(<<99>>)
    /\ program2 = from_input(<<99>>)
    /\ reference = from_input(<<99>>)
    /\ cpu = from_input7(<<99>>)
    /\ last = NoLast(program)
    /\ pushed = <<>>
    /\ consumed = <<>>
    /\ consumed7 = <<>>
    /\ net = NoNet

LiftNext == MemLift

LiftSpec == LiftInit /\ [][LiftNext]_vars

(***************************************************************************)
(* The amplifier feedback network of day07: feedback_run builds one        *)
(* machine per phase of the sequence and lets them take turns, carrying    *)
(* the value popped from one machine into the next.  net.pc is the         *)
(* position of feedback_run: "turn" at the head of the loop, "run" inside  *)
(* curr_cpu.run(), "done" after the break, "panicked" after an abort.      *)
(* order, given, taken, start and stale record the history of the run.     *)
(***************************************************************************)
MaxTurns == 52

\* test_stage2_1 and test_stage2_2
Stage2_1 == <<3, 26, 1001, 26, -4, 26, 3, 27, 1002, 27, 2, 27, 1, 27, 26,
              27, 4, 27, 1001, 28, -1, 28, 1005, 28, 6, 99, 0, 0, 5>>

Stage2_2 == <<3, 52, 1001, 52, -5, 52, 3, 53, 1, 52, 56, 54, 1007, 54, 5,
              55, 1005, 55, 26, 1001, 54, -5, 54, 1105, 1, 12, 1, 53, 54,
              53, 1008, 54, 0, 55, 1001, 55, 1, 55, 2, 53, 55, 53, 4, 53,
              1001, 56, -1, 56, 1005, 56, 6, 99, 0, 0, 0, 0, 10>>

\* reads its phase p, then p times: reads a value and writes it back; halts
Countdown == <<3, 14, 3, 15, 4, 15, 1001, 14, -1, 14, 1005, 14, 2, 99, 0, 0>>

\* reads its phase, then forever: reads a value, writes it and the phase
TwoOut == <<3, 0, 3, 1, 4, 1, 4, 0, 1105, 1, 2>>

\* reads its phase and halts
NoOut == <<3, 0, 99>>

\* the arguments feedback_run is called with
FeedCases ==
    {[input |-> Stage2_1, sequence |-> <<9, 8, 7, 6, 5>>],
     [input |-> Stage2_1, sequence |-> <<5, 6, 7, 8, 9>>],
     [input |-> Stage2_2, sequence |-> <<9, 7, 8, 5, 6>>],
     [input |-> Countdown, sequence |-> <<1, 1, 1, 1, 1>>],
     [input |-> Countdown, sequence |-> <<3, 3, 3, 3, 3>>],
     [input |-> Countdown, sequence |-> <<2, 2, 2, 1, 1>>],
     [input |-> Countdown, sequence |-> <<1, 1, 1, 1, 2>>],
     [input |-> Countdown, sequence |-> <<1>>],
     [input |-> Countdown, sequence |-> <<2, 2, 2>>],
     [input |-> Countdown, sequence |-> <<2, 2, 2, 2, 2, 2>>],
     [input |-> TwoOut, sequence |-> <<5, 6, 7, 8, 9>>],
     [input |-> NoOut, sequence |-> <<5, 6, 7, 8, 9>>]}

\* `let mut p = Program::from_input(input); p.input.push(**s);`
with_phase(input, s) == [from_input7(input) EXCEPT !.input = Append(@, s)]

\* the loop that fills cpus
build_cpus(input, sequence) ==
    [k \in 1..Len(sequence) |-> with_phase(input, sequence[k])]

\* the state of feedback_run at the head of its loop for the first time
feedback_run(input, sequence) ==
    [pc |-> "turn", input |-> input, sequence |-> sequence,
     cpus |-> build_cpus(input, sequence),
     finished |-> [k \in 1..5 |-> FALSE],
     prev_result |-> 0, i |-> 0,
     order |-> <<>>,
     given |-> [k \in 1..Len(sequence) |-> <<sequence[k]>>],
     taken |-> [k \in 1..Len(sequence) |-> <<>>],
     start |-> build_cpus(input, sequence),
     stale |-> 0, abort |-> "none"]

FeedInit ==
    /\ \E c \in FeedCases : net = feedback_run(c.input, c.sequence)
    /\ build = "debug"
    /\ ret = NoRet
    /\ steps = 0
    /\ m = from_input(<<>>)
    /\ program = from_input(<<99>>)
    /\ program2 = from_input(<<99>>)
    /\ reference = from_input(<<99>>)
    /\ cpu = from_input7(<<99>>)
    /\ last = NoLast(program)
    /\ pushed = <<>>
    /\ consumed = <<>>
    /\ consumed7 = <<>>

FeedFrame == UNCHANGED <<program, program2, reference, cpu, build, last,
                         pushed, consumed, consumed7, steps, m, ret>>

\* an abort of feedback_run
FeedPanic(n, why) == [n EXCEPT !.pc = "panicked", !.abort = why]

\* a carried value that reaches every machine
push_carried_All(cpus, i, v) ==
    [k \in DOMAIN cpus |->
        [cpus[k] EXCEPT !.input = Append(@, v),
                        !.pc = IF k = i + 1 THEN "running" ELSE @]]

\* `curr_cpu.input.push(prev_result); curr_cpu.run()` up to the loop of run
push_carried(cpus, i, v) ==
    [cpus EXCEPT ![i + 1] = [@ EXCEPT !.input = Append(@, v),
                                     !.pc = "running"]]

\* an index that skips a machine
next_index_Skips(i) == (i + 2) % 5

\* `i = (i + 1) % 5`
next_index(i) == (i + 1) % 5

\* `finished.iter().all(|&x| x == true)`
all_finished(finished) == \A k \in 1..5 : finished[k]

\* `let seq_num = sequence[i]; let mut curr_cpu = &mut cpus[i];
\*  curr_cpu.input.push(prev_result); curr_cpu.run();` up to the loop of run
FeedPush ==
    /\ net.pc = "turn"
    /\ Len(net.order) < MaxTurns
    /\ net' =
          IF net.i >= Len(net.sequence) THEN FeedPanic(net, "index")
          ELSE [net EXCEPT
                   !.pc = "run",
                   !.cpus = push_carried(@, net.i, net.prev_result),
                   !.order = Append(@, net.i),
                   !.given[net.i + 1] = Append(@, net.prev_result),
                   !.start = net.cpus,
                   !.stale = Len(net.cpus[net.i + 1].output)]
    /\ FeedFrame

\* the state of feedback_run after the loop iteration r of curr_cpu.run()
FeedRan(n, r) ==
    [n EXCEPT
        !.cpus[n.i + 1] = r.p,
        !.taken[n.i + 1] =
            IF r.op.op = "In" /\ r.p.pc = "running"
            THEN Append(@, r.p.memory[r.op.params[1] + 1])
            ELSE @,
        !.pc = IF r.p.pc = "panicked" THEN "panicked" ELSE @,
        !.abort = IF r.p.pc = "panicked" THEN "run" ELSE @]

\* one loop iteration of curr_cpu.run()
FeedStep ==
    /\ net.pc = "run"
    /\ net.cpus[net.i + 1].pc = "running"
    /\ \E pick \in PickSet(net.cpus[net.i + 1]) :
          \E r \in {RunIter7(net.cpus[net.i + 1], pick)} :
              /\ PickOK(r, pick)
              /\ net' = FeedRan(net, r)
    /\ FeedFrame

\* the rest of the loop body with the updated flags finished
FeedPop_finished(n, finished) ==
    [n EXCEPT
        !.cpus[n.i + 1].output = Tail(@),
        !.prev_result = Head(n.cpus[n.i + 1].output),
        !.finished = finished,
        !.pc = IF n.i = 4 /\ all_finished(finished) THEN "done" ELSE "turn",
        !.i = IF n.i = 4 /\ all_finished(finished) THEN @
              ELSE next_index(@)]

\* `prev_result = curr_cpu.output.remove(0); finished[i] = curr_cpu.halted;
\*  if i == 4 && all finished { break; } i = (i + 1) % 5;`
FeedPop ==
    /\ net.pc = "run"
    /\ net.cpus[net.i + 1].pc = "idle"
    /\ net' =
          IF net.cpus[net.i + 1].output = <<>> THEN FeedPanic(net, "remove")
          ELSE FeedPop_finished(net,
                   [net.finished EXCEPT
                       ![net.i + 1] = net.cpus[net.i + 1].halted])
    /\ FeedFrame

FeedNext == FeedPush \/ FeedStep \/ FeedPop

FeedSpec == FeedInit /\ [][FeedNext]_vars

\* the calls of test_stage2_1 and test_stage2_2 and of stage2 on the program
\* of test_stage2_1
FixtureInit == FeedInit /\ net.input \in {Stage2_1, Stage2_2}

\* feedback_run is one sequential function: it keeps executing until it
\* returns or aborts
FeedLive == FixtureInit /\ [][FeedNext]_vars /\ WF_vars(FeedNext)

(***************************************************************************)
(* The amplifier chain of day07: the closure of stage1 runs one freshly    *)
(* built machine per phase of the sequence, each with the inputs phase and *)
(* old_result, and takes its first output as the next old_result.  net.pc  *)
(* is the position of the closure: "next" at the head of the for loop,     *)
(* "run" inside program.run(), "done" after the loop.  made records, for   *)
(* every machine that was run, its halted flag and its outputs.            *)
(***************************************************************************)
\* test_example_1
Example_1 == <<3, 15, 3, 16, 1002, 16, 10, 16, 1, 16, 15, 15, 4, 15, 99, 0, 0>>

\* the digits the phases of a sequence are drawn from
ChainDigits == {0, 4, 9}

ChainSequences == [1..5 -> ChainDigits] \cup {<<4, 3, 2, 1, 0>>}

\* the closure of stage1 at the head of its for loop for the first time
stage1(input, sequence) ==
    [pc |-> "next", input |-> input, sequence |-> sequence, k |-> 1,
     old_result |-> 0, program |-> from_input7(input), made |-> <<>>]

ChainInit ==
    /\ \E sequence \in ChainSequences : net = stage1(Example_1, sequence)
    /\ build = "debug"
    /\ ret = NoRet
    /\ steps = 0
    /\ m = from_input(<<>>)
    /\ program = from_input(<<99>>)
    /\ program2 = from_input(<<99>>)
    /\ reference = from_input(<<99>>)
    /\ cpu = from_input7(<<99>>)
    /\ last = NoLast(program)
    /\ pushed = <<>>
    /\ consumed = <<>>
    /\ consumed7 = <<>>

\* `program.input.push(*s); program.input.push(old_result); program.run()`
\* up to the loop of run
ChainPush ==
    /\ net.pc = "next"
    /\ net' = [net EXCEPT
                  !.pc = "run",
                  !.program = [@ EXCEPT
                      !.input = @ \o <<net.sequence[net.k], net.old_result>>,
                      !.pc = "running"]]
    /\ FeedFrame

\* one loop iteration of program.run()
ChainStep ==
    /\ net.pc = "run"
    /\ net.program.pc = "running"
    /\ \E pick \in PickSet(net.program) :
          \E r \in {RunIter7(net.program, pick)} :
              /\ PickOK(r, pick)
              /\ net' = [net EXCEPT
                            !.program = r.p,
                            !.pc = IF r.p.pc = "panicked" THEN "panicked"
                                   ELSE @]
    /\ FeedFrame

\* a chain that keeps the machine of the previous phase
next_program_Reuses(input, p) == p

\* `program = Program::from_input(input)`
next_program(input, p) == from_input7(input)

\* `old_result = program.output[0]; program = Program::from_input(input);`
\* and the step of the for loop
ChainTake ==
    /\ net.pc = "run"
    /\ net.program.pc = "idle"
    /\ net' =
          IF net.program.output = <<>> THEN [net EXCEPT !.pc = "panicked"]
          ELSE [net EXCEPT
                   !.old_result = net.program.output[1],
                   !.made = Append(@, [halted |-> net.program.halted,
                                       output |-> net.program.output]),
                   !.program = next_program(net.input, @),
                   !.k = @ + 1,
                   !.pc = IF net.k = Len(net.sequence) THEN "done"
                          ELSE "next"]
    /\ FeedFrame

ChainNext == ChainPush \/ ChainStep \/ ChainTake

ChainSpec == ChainInit /\ [][ChainNext]_vars

(***************************************************************************)
(* The fixture tests: a test builds a machine from a program text, pushes  *)
(* its input values and calls run.  program is the machine of day09,       *)
(* net.program5 the machine of day05 and net.program02 the machine of      *)
(* day02 under the same test.                                              *)
(***************************************************************************)
MaxInput == 12

\* the loop iterations a test is followed for
MaxFixSteps == 90

\* the input values of the tests
FixInputs == (-3)..MaxInput

\* test_day5_position_equals_to_8, test_imm_equals_to_8,
\* test_day5_position_lessthan_to_8, test_day5_imm_lessthan_to_8
Position_equals_to_8 == <<3, 9, 8, 9, 10, 9, 4, 9, 99, -1, 8>>

Imm_equals_to_8 == <<3, 3, 1108, -1, 8, 3, 4, 3, 99>>

Position_lessthan_to_8 == <<3, 9, 7, 9, 10, 9, 4, 9, 99, -1, 8>>

Imm_lessthan_to_8 == <<3, 3, 1107, -1, 8, 3, 4, 3, 99>>

Fixtures == {Position_equals_to_8, Imm_equals_to_8,
             Position_lessthan_to_8, Imm_lessthan_to_8}

\* test_day5_loop_and_cache
Loop_and_cache == <<3, 9, 4, 9, 1001, 9, -1, 9, 1105, 112233, 2, 99>>

\* test_day5_larger_example
Larger_example ==
    <<3, 21, 1008, 21, 8, 20, 1005, 20, 22, 107, 8, 21, 20, 1006, 20, 31,
      1106, 0, 36, 98, 0, 0, 1002, 21, 125, 20, 4, 20, 1105, 1, 46, 104,
      999, 1105, 1, 46, 1101, 1000, 1, 20, 4, 20, 1105, 1, 46, 98, 99>>

\* test_day9_example_1
Day9_example_1 == <<109, 1, 204, -1, 1001, 100, 1, 100, 1008, 100, 16, 101,
                    1006, 101, 0, 99>>

\* test_day2 and test_example_program of day02
Day2 == <<1, 9, 10, 3, 2, 3, 11, 0, 99, 30, 40, 50>>

\* reads two values into cells 7 and 8, writes the first and halts
TwoIn == <<3, 7, 3, 8, 4, 7, 99, 0, 0>>

\* the tests: a program text and the values pushed before run
FixTests ==
    {[input |-> input, args |-> <<v>>] :
        input \in Fixtures \cup {Loop_and_cache, Larger_example},
        v \in FixInputs}
    \cup {[input |-> Day9_example_1, args |-> <<>>],
          [input |-> Day2, args |-> <<>>]}
    \cup {[input |-> TwoIn, args |-> <<a, b>>] : a, b \in {4, 8}}

\* `program.input.push(..)` for every value of args
PushAll(p, args) == IF p.pc = "idle" THEN [p EXCEPT !.input = @ \o args] ELSE p

\* `let mut program = Program::from_input(input); program.input.push(v);`
FixInit ==
    /\ \E t \in FixTests :
          /\ program = PushAll(from_input(t.input), t.args)
          /\ net = [pc |-> "test", input |-> t.input, args |-> t.args,
                    v |-> IF t.args = <<>> THEN 0 ELSE t.args[1],
                    program5 |-> PushAll(from_input5(t.input), t.args),
                    program02 |-> from_input2(t.input)]
    /\ build \in {"debug", "release"}
    /\ last = NoLast(program)
    /\ pushed = <<>>
    /\ consumed = <<>>
    /\ consumed7 = <<>>
    /\ steps = 0
    /\ program2 = from_input(<<99>>)
    /\ reference = from_input(<<99>>)
    /\ cpu = from_input7(<<99>>)
    /\ m = from_input(<<>>)
    /\ ret = NoRet

FixFrame == UNCHANGED <<program2, reference, cpu, build, pushed, consumed,
                        consumed7, m, ret>>

\* program.run(): control enters the loop
FixRun ==
    /\ net.pc = "test"
    /\ program' = Enter(program)
    /\ net' = [net EXCEPT !.pc = "run", !.program5 = Enter(@),
                          !.program02 = Enter(@)]
    /\ last' = [kind |-> "call", op |-> None, pre |-> program,
                susp |-> FALSE, resumed |-> FALSE, over |-> last.over]
    /\ UNCHANGED steps
    /\ FixFrame

\* one loop iteration in every machine that is inside run
FixStep ==
    /\ net.pc = "run"
    /\ Running(program) \/ Running(net.program5) \/ Running(net.program02)
    /\ steps < MaxFixSteps
    /\ \E pick \in PickSet(program) :
          IF Running(program)
          THEN \E r \in {RunIter(program, pick)} :
                   /\ PickOK(r, pick)
                   /\ program' = r.p
                   /\ last' = [kind |-> "iter", op |-> r.op, pre |-> program,
                               susp |-> r.op.op = "In" /\ program.input = <<>>,
                               resumed |-> last.susp,
                               over |-> Overlapped(program, r.op, r.p)]
          ELSE pick = NoPick /\ UNCHANGED <<program, last>>
    /\ \E pick5 \in PickSet(net.program5) :
          \E r5 \in {IF Running(net.program5)
                      THEN RunIter5(net.program5, pick5)
                      ELSE [p |-> net.program5, cands |-> {}, op |-> None7]} :
              /\ PickOK(r5, pick5)
              /\ net' = [net EXCEPT
                            !.program5 = r5.p,
                            !.program02 = IF Running(@) THEN RunIter2(@)
                                          ELSE @]
    /\ steps' = steps + 1
    /\ FixFrame

FixNext == FixRun \/ FixStep

FixSpec == FixInit /\ [][FixNext]_vars

(***************************************************************************)
(* Properties.                                                             *)
(***************************************************************************)
\* what a caller can observe of a machine
Obs(p) == [ip |-> p.ip, memory |-> p.memory, relative_base |-> p.relative_base,
           output |-> p.output, halted |-> p.halted, pc |-> p.pc]

\* the decoding of the current memory of p starting at address a
Decoded(p, a) == lift(p, a)

\* C1: in every reachable state of the day09 VM every entry of the
\* instruction cache at address a equals the decoding of the current memory
\* starting at a (an entry is absent or correct, never stale).
C1_CacheNeverStale ==
    program.pc # "panicked" =>
        \A a \in DOMAIN program.instructions :
            \A d \in {Decoded(program, a)} :
                d.ok /\ d.op = program.instructions[a]

\* C2: the cached VM and the cache-less reference interpreter go through the
\* same instruction pointers, memory contents, relative bases and outputs and
\* end in the same outcome.
C2_SameAsReference == Obs(program) = Obs(reference)

\* C3: two VMs constructed from the same memory and given the same input and
\* the same run calls are in identical observable states, whatever order
\* their instruction-cache maps iterate in.
C3_Deterministic == Obs(program) = Obs(program2)

\* C10: read(a) and write(a, v) succeed for every address a at or beyond the
\* current memory length (a equal to the length included): a becomes a valid
\* index, read returns 0 and write stores v at a.
C10_GrowsAtOrBeyondLength ==
    (ret.kind \in {"read", "write"} /\ ret.address >= Len(ret.pre.memory)) =>
        /\ ret.ok
        /\ ret.address < Len(m.memory)
        /\ ret.kind = "read" => ret.val = 0
        /\ ret.kind = "write" => m.memory[ret.address + 1] = ret.value

\* the last transition was an iteration of run after which run returned
Returned == last.kind = "iter" /\ program.pc = "idle"

\* C4: run returns normally only with halted set by an executed Halt, or at
\* an Input instruction at the instruction pointer with an empty input
\* queue; it returns at no other instruction.
C4_ReturnsOnlyAtHaltOrStarvedInput ==
    Returned =>
        \/ program.halted /\ last.op = Halt
        \/ /\ ~program.halted
           /\ last.op.op = "In"
           /\ program.ip \in DOMAIN program.instructions
           /\ program.instructions[program.ip] = last.op
           /\ program.input = <<>>

\* run has returned without halting after an Output had been executed
C4_Witness == Returned /\ ~program.halted /\ program.output # <<>>

\* an Input instruction was reached with an empty input queue
StarvedInput ==
    last.kind = "iter" /\ last.op.op = "In" /\ last.pre.input = <<>>

\* C5: when an Input is reached with an empty input queue, run returns with
\* the instruction pointer still at that Input and with memory, relative
\* base, output queue and halted flag (false) unchanged.
C5_SuspendChangesNothing ==
    StarvedInput =>
        /\ program.pc = "idle"
        /\ program.ip = last.pre.ip
        /\ program.memory = last.pre.memory
        /\ program.relative_base = last.pre.relative_base
        /\ program.output = last.pre.output
        /\ program.input = <<>>
        /\ program.halted = FALSE

\* a starved Input met after the relative base had been adjusted
C5_Witness == StarvedInput /\ program.relative_base # 0

\* the first iteration of a run call made after run suspended at an Input
\* and a value was pushed
Resumed == last.kind = "iter" /\ last.resumed /\ last.pre.input # <<>>

\* the destination of the resumed Input is one the Memory Store accepts:
\* not Immediate and not a negative address
LegalDest(p, param) ==
    /\ param.mode # "Immediate"
    /\ param.mode = "Positional" => param.val >= 0
    /\ param.mode = "Relative" => p.relative_base + param.val >= 0

DestOf(p, param) ==
    IF param.mode = "Relative" THEN p.relative_base + param.val ELSE param.val

\* C6: after run has suspended at an Input, pushing v and calling run again
\* executes that same Input first: v is written to its destination, the
\* instruction pointer advances by 2 and execution continues from there.
C6_ResumeExecutesInput ==
    Resumed =>
        /\ last.op.op = "In"
        /\ LegalDest(last.pre, last.op.params[1]) =>
              /\ program.pc = "running"
              /\ program.ip = last.pre.ip + 2
              /\ program.input = Tail(last.pre.input)
              /\ DestOf(last.pre, last.op.params[1]) < Len(program.memory)
              /\ program.memory[DestOf(last.pre, last.op.params[1]) + 1]
                    = Head(last.pre.input)

\* C7: halted is terminal: once halted is true it stays true, and a later
\* call to run (with or without pushed input) leaves instruction pointer,
\* memory, relative base, input queue and output queue unchanged.
C7_HaltedIsTerminal ==
    [][program.halted =>
          /\ program'.halted
          /\ program'.pc # "panicked"
          /\ program'.ip = program.ip
          /\ program'.memory = program.memory
          /\ program'.relative_base = program.relative_base
          /\ program'.output = program.output
          /\ last'.kind \in {"call", "iter"} => program'.input = program.input
      ]_vars

\* a run call on a halted machine with pushed input pending has returned
C7_Witness ==
    /\ last.kind = "iter" /\ last.pre.halted
    /\ program.halted /\ program.input # <<>>

\* C8: in the day09 and the day07 VM input is consumed first-in first-out: the values stored by
\* the completed Input instructions are, in order, the first values ever
\* pushed, each Input consumes one value and nothing else changes the queue.
C8_InputIsFifo ==
    /\ program.pc # "panicked" => pushed = consumed \o program.input
    /\ cpu.pc # "panicked" => pushed = consumed7 \o cpu.input

\* both machines have completed two Inputs that stored different values
C8_Witness ==
    /\ program.pc # "panicked" /\ cpu.pc # "panicked"
    /\ Len(consumed) = 2 /\ consumed[1] # consumed[2]
    /\ Len(consumed7) = 2 /\ consumed7[1] # consumed7[2]

\* the value an Output operand resolves to in machine p
Resolved(p, param) ==
    CASE param.mode = "Positional" -> p.memory[param.val + 1]
      [] param.mode = "Immediate" -> param.val
      [] param.mode = "Relative" -> p.memory[p.relative_base + param.val + 1]

\* C9: the output queue grows only by an executed Output appending the value
\* it resolved at the tail; no transition removes, reorders or overwrites
\* values already in the queue.
C9_OutputAppendOnly ==
    IF last.kind = "iter" /\ last.op.op = "Out" /\ program.pc # "panicked"
    THEN /\ Len(program.output) = Len(last.pre.output) + 1
         /\ SubSeq(program.output, 1, Len(last.pre.output)) = last.pre.output
         /\ program.output[Len(program.output)]
               = Resolved(program, last.op.params[1])
    ELSE program.output = last.pre.output

\* an Output has appended to a queue that already held a different value
C9_Witness ==
    /\ last.kind = "iter" /\ last.op.op = "Out"
    /\ Len(program.output) >= 2
    /\ program.output[1] # program.output[2]

\* the last transition executed the instruction last.op to its end
Executed == last.kind = "iter" /\ last.op # None /\ program.pc # "panicked"

\* the address the executed instruction stored to, NoPick when it stored
\* nothing
WrittenAddr ==
    IF ~Executed THEN NoPick
    ELSE IF last.op.op \in {"Add", "Mul", "LessThan", "Equals"}
         THEN DestOf(last.pre, last.op.params[3])
    ELSE IF last.op.op = "In" /\ last.pre.input # <<>>
         THEN DestOf(last.pre, last.op.params[1])
    ELSE NoPick

NegAccess(p, op) ==
    /\ op.op = "In" => p.input # <<>>
    /\ \E k \in DOMAIN op.params :
          op.params[k].mode # "Immediate" /\ DestOf(p, op.params[k]) < 0

\* the smaller of two lengths
Min(a, b) == IF a < b THEN a ELSE b

\* C12: an access whose effective address is negative (negative Positional
\* operand, or relative_base + offset < 0) fails: the run aborts at that
\* instruction, nothing is output and no cell that is still there has
\* changed its value.
C12_NegativeAddressFails ==
    (last.kind = "iter" /\ last.op # None /\ NegAccess(last.pre, last.op)) =>
        /\ program.pc = "panicked"
        /\ program.ip = last.pre.ip
        /\ program.output = last.pre.output
        /\ \A i \in 1..Min(Len(program.memory), Len(last.pre.memory)) :
              program.memory[i] = last.pre.memory[i]

\* an instruction with a negative Positional operand has been executed
C12_Witness ==
    /\ last.kind = "iter" /\ last.op # None /\ NegAccess(last.pre, last.op)
    /\ \E k \in DOMAIN last.op.params :
          last.op.params[k].mode = "Positional" /\ last.op.params[k].val < 0

\* the instruction set: name and number of operands by the low two digits
KnownOps == (1..9) \cup {99}

NameOf(o) ==
    CASE o = 1 -> "Add" [] o = 2 -> "Mul" [] o = 3 -> "In" [] o = 4 -> "Out"
      [] o = 5 -> "JumpNonZero" [] o = 6 -> "JumpZero" [] o = 7 -> "LessThan"
      [] o = 8 -> "Equals" [] o = 9 -> "AdjustRelativeBase" [] o = 99 -> "Halt"

Arity(o) ==
    CASE o \in {1, 2, 7, 8} -> 3 [] o \in {5, 6} -> 2 [] o \in {3, 4, 9} -> 1
      [] o = 99 -> 0

\* decimal digit k + 2 of w, counted from the least significant
ModeDigit(w, k) ==
    CASE k = 1 -> (w \div 100) % 10
      [] k = 2 -> (w \div 1000) % 10
      [] k = 3 -> (w \div 10000) % 10

ModeName(d) ==
    CASE d = 0 -> "Positional" [] d = 1 -> "Immediate" [] d = 2 -> "Relative"

\* lift was applied to an instruction word of ret.pre that is non-negative,
\* has a known instruction in its low two digits, mode digits in 0..2 and
\* all its operand cells in memory
LiftedWord ==
    /\ ret.kind = "lift"
    /\ ULt(ret.address, Len(ret.pre.memory))
    /\ ret.pre.pc = "idle"
    /\ ret.pre.memory[ret.address + 1] >= 0
    /\ ret.pre.memory[ret.address + 1] % 100 \in KnownOps
    /\ \A k \in 1..3 : ModeDigit(ret.pre.memory[ret.address + 1], k) \in 0..2
    /\ ret.address + Arity(ret.pre.memory[ret.address + 1] % 100)
          < Len(ret.pre.memory)

\* C13: for such a word w at address a, lift selects the instruction by
\* w mod 100 and tags operand k with the mode of decimal digit k + 2 of w
\* (0 Positional, 1 Immediate, 2 Relative) and the raw value memory[a + k].
C13_DecodesByDigits ==
    LiftedWord =>
        /\ ret.ok
        /\ ret.op.op = NameOf(ret.pre.memory[ret.address + 1] % 100)
        /\ Len(ret.op.params) = Arity(ret.pre.memory[ret.address + 1] % 100)
        /\ \A k \in 1..Len(ret.op.params) :
              ret.op.params[k] =
                 [mode |-> ModeName(ModeDigit(ret.pre.memory[ret.address + 1], k)),
                  val |-> ret.pre.memory[ret.address + k + 1]]

\* the word at the instruction pointer of p is not cached and its low two
\* digits match no instruction
UnknownAtIp(p) ==
    /\ ULt(p.ip, Len(p.memory))
    /\ p.ip \notin DOMAIN p.instructions
    /\ Rem(p.memory[p.ip + 1], 100) \notin KnownOps

Length(name) ==
    CASE name = "Halt" -> 1
      [] name \in {"In", "Out", "AdjustRelativeBase"} -> 2
      [] name \in {"JumpNonZero", "JumpZero"} -> 3
      [] name \in {"Add", "Mul", "LessThan", "Equals"} -> 4

\* the value an operand resolves to in machine p: the literal, or the cell
\* at its effective address (0 for a cell beyond the end of memory)
Operand(p, param) ==
    IF param.mode = "Immediate" THEN param.val
    ELSE IF DestOf(p, param) + 1 \in DOMAIN p.memory
         THEN p.memory[DestOf(p, param) + 1]
         ELSE 0

\* the executed instruction was a jump whose condition held
JumpTaken ==
    \/ last.op.op = "JumpNonZero" /\ Operand(last.pre, last.op.params[1]) # 0
    \/ last.op.op = "JumpZero" /\ Operand(last.pre, last.op.params[1]) = 0

\* the instruction cache at the moment the executed instruction stores: the
\* entries before the iteration and the executed instruction itself
CacheAtWrite ==
    [a \in DOMAIN last.pre.instructions \cup {last.pre.ip} |->
        IF a = last.pre.ip THEN last.op ELSE last.pre.instructions[a]]

\* the cached entries whose span [start, start + length) holds WrittenAddr
Hit ==
    {start \in DOMAIN CacheAtWrite :
        /\ start <= WrittenAddr
        /\ WrittenAddr < start + Length(CacheAtWrite[start].op)}

\* the entry at start is, after the step, the decoding of current memory
Fresh(start) ==
    \A d \in {Decoded(program, start)} :
        IF start \in DOMAIN program.instructions
        THEN d.ok /\ d.op = program.instructions[start]
        ELSE d.ok /\ d.op = None

\* C15: every instruction has the fixed length 1, 2, 3 or 4; after executing
\* any instruction other than a taken jump, a suspended Input or Halt the
\* instruction pointer has increased by exactly that length; and a store
\* leaves every cached entry whose span [start, start + length) does not
\* hold the address as it was, and re-lifts an entry whose span holds it.
C15_FixedLengths ==
    Executed =>
        /\ (/\ last.op # Halt
            /\ ~(last.op.op = "In" /\ last.pre.input = <<>>)
            /\ ~JumpTaken)
              => program.ip = last.pre.ip + Length(last.op.op)
        /\ \A start \in DOMAIN CacheAtWrite \ Hit :
              /\ start \in DOMAIN program.instructions
              /\ program.instructions[start] = CacheAtWrite[start]
        /\ Hit # {} => \E start \in Hit : Fresh(start)

\* a store into an operand cell of a cached instruction has been executed
C15_Witness ==
    /\ Executed
    /\ \E start \in Hit : start < WrittenAddr
    /\ program.ip = last.pre.ip + 2

\* C16: JumpIfTrue sets the instruction pointer to value2 when value1 is
\* nonzero and otherwise advances it by 3; JumpIfFalse sets it to value2 when
\* value1 is zero and otherwise advances it by 3; neither changes a memory
\* cell value, the relative base, the input queue or the output queue.
C16_JumpSemantics ==
    (Executed /\ last.op.op \in {"JumpNonZero", "JumpZero"}) =>
        /\ program.ip = IF JumpTaken
                        THEN Operand(last.pre, last.op.params[2])
                        ELSE last.pre.ip + 3
        /\ Len(program.memory) >= Len(last.pre.memory)
        /\ \A i \in 1..Len(last.pre.memory) :
              program.memory[i] = last.pre.memory[i]
        /\ program.relative_base = last.pre.relative_base
        /\ program.input = last.pre.input
        /\ program.output = last.pre.output

\* a JumpIfFalse with Positional operands has been taken
C16_Witness ==
    /\ Executed /\ last.op.op = "JumpZero" /\ JumpTaken
    /\ last.op.params[2].mode = "Positional"
    /\ program.ip # last.pre.ip + 3

\* what each storing instruction computes from its two operand values
Arith(name, a, b) ==
    CASE name = "Add" -> a + b
      [] name = "Mul" -> a * b
      [] name = "LessThan" -> IF a < b THEN 1 ELSE 0
      [] name = "Equals" -> IF a = b THEN 1 ELSE 0

Storing == {"Add", "Mul", "LessThan", "Equals"}

\* C17: operands resolve at execution time: Positional p yields memory[p],
\* Immediate the literal, Relative r yields memory[relative_base + r] with
\* the relative base current when the instruction executes; a Positional
\* destination d is address d, a Relative destination r is relative_base + r.
C17_OperandResolution ==
    Executed =>
        /\ last.op.op = "Out" =>
              program.output =
                 Append(last.pre.output, Operand(last.pre, last.op.params[1]))
        /\ last.op.op = "AdjustRelativeBase" =>
              program.relative_base =
                 last.pre.relative_base + Operand(last.pre, last.op.params[1])
        /\ last.op.op \in {"JumpNonZero", "JumpZero"} /\ JumpTaken =>
              program.ip = Operand(last.pre, last.op.params[2])
        /\ last.op.op \in Storing =>
              /\ DestOf(last.pre, last.op.params[3]) + 1 \in DOMAIN program.memory
              /\ program.memory[DestOf(last.pre, last.op.params[3]) + 1] =
                    Arith(last.op.op, Operand(last.pre, last.op.params[1]),
                          Operand(last.pre, last.op.params[2]))
        /\ (last.op.op = "In" /\ last.pre.input # <<>>) =>
              /\ DestOf(last.pre, last.op.params[1]) + 1 \in DOMAIN program.memory
              /\ program.memory[DestOf(last.pre, last.op.params[1]) + 1] =
                    Head(last.pre.input)

\* a cached Output with a Relative operand has been executed again under a
\* relative base that changed since it was decoded
C17_Witness ==
    /\ Executed /\ last.op.op = "Out"
    /\ last.op.params[1].mode = "Relative"
    /\ last.pre.ip \in DOMAIN last.pre.instructions
    /\ Len(program.output) >= 2
    /\ program.output[1] # program.output[2]

\* C18: relative_base is 0 in a freshly constructed Program; an executed
\* AdjustRelativeBase adds its resolved operand to it and every other
\* transition leaves it unchanged, so that it always equals the sum of the
\* resolved operands of the AdjustRelativeBase instructions executed so far.
C18_RelativeBaseIsSum ==
    /\ last.kind = "init" => program.relative_base = 0
    /\ IF Executed /\ last.op.op = "AdjustRelativeBase"
       THEN program.relative_base =
               last.pre.relative_base + Operand(last.pre, last.op.params[1])
       ELSE program.relative_base = last.pre.relative_base

\* an AdjustRelativeBase has been executed on a base that was already
\* adjusted
C18_Witness ==
    /\ Executed /\ last.op.op = "AdjustRelativeBase"
    /\ last.pre.relative_base # 0
    /\ program.relative_base # last.pre.relative_base

\* C19: Add writes value1 + value2, Multiply value1 * value2, LessThan 1 if
\* value1 < value2 else 0, Equals 1 if value1 = value2 else 0, each to its
\* destination address, and then advances the pointer by 4; apart from the
\* destination cell no cell that existed before changes its value.
C19_StoreSemantics ==
    (Executed /\ last.op.op \in Storing) =>
        /\ WrittenAddr + 1 \in DOMAIN program.memory
        /\ program.memory[WrittenAddr + 1] =
              Arith(last.op.op, Operand(last.pre, last.op.params[1]),
                    Operand(last.pre, last.op.params[2]))
        /\ program.ip = last.pre.ip + 4
        /\ \A i \in 1..Len(last.pre.memory) :
              i - 1 # WrittenAddr => program.memory[i] = last.pre.memory[i]
        /\ program.relative_base = last.pre.relative_base
        /\ program.input = last.pre.input
        /\ program.output = last.pre.output

\* a LessThan of a value and the value plus 4 has stored 1
C19_Witness ==
    /\ Executed /\ last.op.op = "LessThan"
    /\ program.memory[WrittenAddr + 1] = 1
    /\ Operand(last.pre, last.op.params[1]) + 4
          = Operand(last.pre, last.op.params[2])

\* the instruction op, executed in machine p, has its destination operand
\* in Immediate mode (an Input is executed only when input is queued)
ImmediateDest(p, op) ==
    \/ op.op \in Storing /\ op.params[3].mode = "Immediate"
    \/ op.op = "In" /\ op.params[1].mode = "Immediate" /\ p.input # <<>>

\* C20: executing an Add, Multiply, Input, LessThan or Equals whose
\* destination operand is Immediate aborts the run: no memory cell is
\* written, the instruction pointer does not advance and the instruction is
\* not skipped.
C20_ImmediateDestAborts ==
    (last.kind = "iter" /\ last.op # None /\ ImmediateDest(last.pre, last.op))
      =>
        /\ program.pc = "panicked"
        /\ program.ip = last.pre.ip
        /\ program.output = last.pre.output
        /\ \A i \in 1..Min(Len(program.memory), Len(last.pre.memory)) :
              program.memory[i] = last.pre.memory[i]
        /\ \A i \in 1..Len(program.memory) :
              i > Len(last.pre.memory) => program.memory[i] = 0

\* an Add with an Immediate destination has been executed
C20_Witness ==
    /\ last.kind = "iter" /\ last.op.op = "Add"
    /\ last.op.params[3].mode = "Immediate"
    /\ program.pc = "panicked"

\* every memory operand of op has its effective address inside the memory
\* of p
OperandsInRange(p, op) ==
    \A k \in DOMAIN op.params :
        op.params[k].mode # "Immediate" =>
            ULt(DestOf(p, op.params[k]), Len(p.memory))

\* the last transition ran an instruction that reaches its call of write
Stores ==
    /\ last.kind = "iter" /\ last.op # None
    /\ \/ last.op.op \in Storing /\ last.op.params[3].mode # "Immediate"
       \/ /\ last.op.op = "In" /\ last.pre.input # <<>>
          /\ last.op.params[1].mode # "Immediate"
    /\ OperandsInRange(last.pre, last.op)

\* the address and the value of that write
StoreAddr == DestOf(last.pre, last.op.params[Len(last.op.params)])

StoreValue ==
    IF last.op.op = "In" THEN Head(last.pre.input)
    ELSE Arith(last.op.op, Operand(last.pre, last.op.params[1]),
               Operand(last.pre, last.op.params[2]))

\* the memory once the value is stored
MemAfter == [last.pre.memory EXCEPT ![StoreAddr + 1] = StoreValue]

\* the cached entries whose span holds the address of that write
StoreHit ==
    {start \in DOMAIN CacheAtWrite :
        /\ start <= StoreAddr
        /\ StoreAddr < start + Length(CacheAtWrite[start].op)}

\* the word w is an instruction: a known opcode in its low two digits and a
\* mode digit 0, 1 or 2 for each of its operands
ValidWord(w) ==
    /\ w >= 0
    /\ w % 100 \in KnownOps
    /\ \A k \in 1..Arity(w % 100) : ModeDigit(w, k) \in 0..2

\* C21: when a write lands inside the span of a cached instruction and the
\* cells at that instruction's start no longer decode to a valid
\* instruction, the write completes, the entry at that start is removed and
\* the run continues after the storing instruction.
C21_InvalidRewriteRemovesEntry ==
    Stores =>
        \A start \in StoreHit :
            (StoreHit = {start} /\ ~ValidWord(MemAfter[start + 1])) =>
                /\ program.pc = "running"
                /\ program.memory = MemAfter
                /\ start \notin DOMAIN program.instructions
                /\ program.ip = last.pre.ip + Length(last.op.op)

\* the machine whose turn it is
Current == net.cpus[net.i + 1]

\* C22: feedback_run runs the instances in strict cyclic order: the
\* (k+1)-th turn runs instance k mod 5, only the instance whose turn it is
\* is inside run, and no machine is inside run when a turn starts or after
\* feedback_run has returned.
C22_StrictCyclicOrder ==
    /\ \A k \in 1..Len(net.order) : net.order[k] = (k - 1) % 5
    /\ \A j \in DOMAIN net.cpus :
          net.cpus[j].pc = "running" => net.pc = "run" /\ j = net.i + 1
    /\ net.pc = "run" => net.order[Len(net.order)] = net.i

\* the seventh turn is under way: the order has wrapped around once
C22_Witness ==
    /\ net.pc = "run"
    /\ Len(net.order) = 7
    /\ net.order = <<0, 1, 2, 3, 4, 0, 1>>
    /\ Current.pc = "running"

\* curr_cpu.run() has returned and the output has not been taken yet
RunReturned == net.pc = "run" /\ Current.pc = "idle"

\* C23: on every turn, when the run of the current instance has returned,
\* the instance has produced at least one output during this turn and the
\* value about to be popped, the head of its output queue, was produced
\* during this turn: no value of an earlier turn was left in the queue.
C23_PoppedOutputIsFromThisTurn ==
    RunReturned =>
        /\ Len(Current.output) > net.stale
        /\ net.stale = 0

\* every machine of the network has halted
AllHalted == \A k \in DOMAIN net.cpus : net.cpus[k].halted

\* C24: with five instances, feedback_run has returned only if every
\* instance has halted, and once the output of the instance whose halting
\* made all instances halted has been popped, whichever instance that is
\* and in whichever round, feedback_run has returned that value: it neither
\* starts another turn nor aborts.
C24_ReturnsWhenLastInstanceHalts ==
    Len(net.sequence) = 5 =>
        /\ net.pc = "done" => AllHalted
        /\ (AllHalted /\ ~RunReturned) =>
              /\ net.pc = "done"
              /\ net.order # <<>>
              /\ net.start[net.order[Len(net.order)] + 1].halted = FALSE

\* the machine of the latest turn, as an index into cpus
Turn == net.order[Len(net.order)] + 1

\* C25: the instances of feedback_run share no mutable state: since the
\* start of the latest turn only the machine of that turn has changed, every
\* other machine is as it was, and what an instance has consumed followed by
\* what is queued for it is exactly what feedback_run handed to it, the
\* latest of which is the single carried value.
C25_InstancesShareNoState ==
    /\ \A k \in DOMAIN net.cpus :
          net.given[k] = net.taken[k] \o net.cpus[k].input
    /\ net.order # <<>> =>
          /\ \A k \in DOMAIN net.cpus : k # Turn => net.cpus[k] = net.start[k]
          /\ net.pc = "run" =>
                /\ net.given[Turn][Len(net.given[Turn])] = net.prev_result
                /\ Len(net.given[Turn]) =
                      Len(net.taken[Turn]) + Len(net.cpus[Turn].input)

\* the turn of instance 1 has changed its pointer, memory, cache and input
\* queue and left instance 0 as it was after its own turn
C25_Witness ==
    /\ net.pc = "turn"
    /\ Len(net.order) = 2
    /\ net.cpus[2].ip # net.start[2].ip
    /\ net.cpus[2].memory # net.start[2].memory
    /\ net.cpus[2].instructions # net.start[2].instructions
    /\ net.cpus[2].input # net.start[2].input
    /\ net.cpus[1] = net.start[1]
    /\ net.cpus[1].ip # 0

\* C26: in feedback_run the values an instance has consumed through In are,
\* in order, the values handed to it: the first is its own phase setting and
\* the later ones are the carried values in the order they were pushed; the
\* first carried value instance 0 consumes is the seed 0.
C26_PhaseThenCarriedInOrder ==
    /\ \A k \in DOMAIN net.cpus :
          /\ Len(net.taken[k]) <= Len(net.given[k])
          /\ \A j \in 1..Len(net.taken[k]) : net.taken[k][j] = net.given[k][j]
          /\ net.taken[k] # <<>> => net.taken[k][1] = net.sequence[k]
    /\ Len(net.taken[1]) >= 2 => net.taken[1][2] = 0

\* instance 0 has consumed its phase 9, the seed and a carried value
C26_Witness ==
    /\ Len(net.taken[1]) = 3
    /\ net.taken[1][1] = 9
    /\ net.taken[1][2] = 0
    /\ net.taken[1][3] # 0
    /\ net.taken[1][3] = net.given[1][3]

\* C27: for any number N >= 1 of phase settings, feedback_run does not
\* abort on an index, its k-th turn runs instance (k-1) mod N, and it
\* returns only when all N instances have halted.
C27_AnyNumberOfInstances ==
    /\ net.abort # "index"
    /\ \A k \in 1..Len(net.order) :
          net.order[k] = (k - 1) % Len(net.sequence)
    /\ net.pc = "done" => AllHalted

\* C28: feedback_run on the program of test_stage2_1 with phases 9,8,7,6,5
\* terminates with all five instances halted and returns 139629729, and on
\* the program of test_stage2_2 with phases 9,7,8,5,6 it terminates and
\* returns 18216.
C28_StageTwoFixtures ==
    /\ (net.input = Stage2_1 /\ net.sequence = <<9, 8, 7, 6, 5>>) =>
          <>(net.pc = "done" /\ AllHalted /\ net.prev_result = 139629729)
    /\ (net.input = Stage2_2 /\ net.sequence = <<9, 7, 8, 5, 6>>) =>
          <>(net.pc = "done" /\ AllHalted /\ net.prev_result = 18216)

\* the first fixture has returned after five rounds
C28_Witness ==
    /\ net.input = Stage2_1 /\ net.sequence = <<9, 8, 7, 6, 5>>
    /\ net.pc = "done"
    /\ Len(net.order) = 25
    /\ net.prev_result = 139629729

\* 10 * (10 * (... ) + p) + q over the first n phases of the sequence s
RECURSIVE Decimal(_, _)
Decimal(s, n) == IF n = 0 THEN 0 ELSE 10 * Decimal(s, n - 1) + s[n]

\* C29: the chain over the program of test_example_1 does not abort; every
\* instance that was run halted after producing exactly one output; the
\* result carried after n instances is the decimal number written with the
\* first n phases, so that the value returned for p1..p5 is
\* 10000*p1 + 1000*p2 + 100*p3 + 10*p4 + p5.
C29_ChainYieldsDecimal ==
    /\ net.pc # "panicked"
    /\ \A j \in 1..Len(net.made) :
          net.made[j].halted /\ Len(net.made[j].output) = 1
    /\ Len(net.made) = net.k - 1
    /\ net.old_result = Decimal(net.sequence, net.k - 1)
    /\ net.pc = "done" =>
          /\ net.k = 6
          /\ net.old_result =
                10000 * net.sequence[1] + 1000 * net.sequence[2]
                + 100 * net.sequence[3] + 10 * net.sequence[4]
                + net.sequence[5]

\* the chain over the phases 4,3,2,1,0 has returned 43210
C29_Witness ==
    /\ net.pc = "done"
    /\ net.sequence = <<4, 3, 2, 1, 0>>
    /\ net.old_result = 43210
    /\ Len(net.made) = 5

\* what the compare-to-8 program of the test writes for the input v
Expected ==
    IF net.input \in {Position_equals_to_8, Imm_equals_to_8}
    THEN IF net.v = 8 THEN 1 ELSE 0
    ELSE IF net.v < 8 THEN 1 ELSE 0

\* run has returned from the machine p
RunOver(p) == net.pc = "run" /\ p.pc = "idle"

\* C30: for each of the four compare-to-8 programs and every input value v
\* neither machine aborts, run returns within four iterations, and when it
\* has returned the machine stands at its Halt (the day09 machine with
\* halted set) with exactly one output: 1 if v = 8 and 0 otherwise for the
\* two equals programs, 1 if v < 8 and 0 otherwise for the two less-than
\* programs.
C30_CompareToEight ==
    net.input \in Fixtures =>
        /\ program.pc # "panicked" /\ net.program5.pc # "panicked"
        /\ steps >= 4 => RunOver(program) /\ RunOver(net.program5)
        /\ RunOver(program) =>
              /\ program.halted
              /\ program.output = <<Expected>>
        /\ RunOver(net.program5) =>
              /\ net.program5.memory[net.program5.ip + 1] = 99
              /\ net.program5.output = <<Expected>>
        /\ ~RunOver(program) => Len(program.output) <= 1 /\ ~program.halted

\* the immediate equals program has written 1 for the input 8 and halted,
\* on both machines
C30_Witness ==
    /\ net.input = Imm_equals_to_8
    /\ net.v = 8
    /\ RunOver(program) /\ RunOver(net.program5)
    /\ program.halted
    /\ program.output = <<1>>
    /\ net.program5.output = <<1>>

\* the test of the loop program with a counter n >= 1
LoopTest == net.input = Loop_and_cache /\ net.v >= 1

\* out is n, n-1, ... down to n - Len(out) + 1
CountsDown(out, n) ==
    /\ Len(out) <= n
    /\ \A j \in 1..Len(out) : out[j] = n - j + 1

\* C31: for the loop program and every input n >= 1 neither machine
\* aborts, the output is at every moment n, n-1, ... as far as it goes, run
\* returns after the In, n rounds of Out, Add and jump, and Halt, and then
\* the output is exactly n, n-1, ..., 1 with the day09 machine halted; every
\* time the jump at address 8 is executed its first operand is the current
\* content of cell 9.
C31_LoopCountsDown ==
    LoopTest =>
        /\ program.pc # "panicked" /\ net.program5.pc # "panicked"
        /\ CountsDown(program.output, net.v)
        /\ CountsDown(net.program5.output, net.v)
        /\ steps >= 3 * net.v + 2 => RunOver(program) /\ RunOver(net.program5)
        /\ RunOver(program) =>
              program.halted /\ Len(program.output) = net.v
        /\ RunOver(net.program5) =>
              /\ Len(net.program5.output) = net.v
              /\ net.program5.memory[net.program5.ip + 1] = 99
        /\ (last.kind = "iter" /\ last.pre.ip = 8) =>
              /\ last.op.op = "JumpNonZero"
              /\ last.op.params[1] = Immediate(last.pre.memory[10])
              /\ program.ip = IF last.pre.memory[10] # 0 THEN 2 ELSE 11

\* the test with the input 10 has written 10,9,...,1 and halted, and the
\* jump was taken from the cache
C31_Witness ==
    /\ net.input = Loop_and_cache /\ net.v = 10
    /\ RunOver(program) /\ program.halted
    /\ program.output = <<10, 9, 8, 7, 6, 5, 4, 3, 2, 1>>
    /\ net.program5.output = <<10, 9, 8, 7, 6, 5, 4, 3, 2, 1>>
    /\ 8 \in DOMAIN program.instructions
    /\ program.instructions[8].params[1] = Immediate(0)

\* out is an initial part of the sequence s
IsPrefix(out, s) ==
    /\ Len(out) <= Len(s)
    /\ \A j \in 1..Len(out) : out[j] = s[j]

\* C32: the program of test_day9_example_1 run with no input does not
\* abort, writes its own source integers in order, and run returns after
\* sixteen rounds with the machine halted and the output identical to the
\* sixteen source integers; the counters it keeps at addresses 100 and 101,
\* beyond the initial sixteen cells, have grown the memory.
C32_WritesItsOwnSource ==
    net.input = Day9_example_1 =>
        /\ program.pc # "panicked"
        /\ program.input = <<>>
        /\ IsPrefix(program.output, Day9_example_1)
        /\ steps >= 81 => RunOver(program)
        /\ RunOver(program) =>
              /\ program.halted
              /\ program.output = Day9_example_1
              /\ program.relative_base = 16
              /\ Len(program.memory) > 101
              /\ program.memory[101] = 16
              /\ program.memory[102] = 1

\* the run has returned with the sixteen integers written
C32_Witness ==
    /\ net.input = Day9_example_1
    /\ RunOver(program) /\ program.halted
    /\ Len(program.output) = 16
    /\ program.output[4] = -1
    /\ program.output[16] = 99
    /\ Len(program.memory) > 16

\* C33: the program 1,9,10,3,2,3,11,0,99,30,40,50 runs to its Halt without
\* an abort on the day09 and on the day02 machine, in three iterations, and
\* leaves 3500 at address 0 and 70 at address 3 on both; on the day09
\* machine the Add at 0, which stores into cell 3 of its own cached span,
\* leaves the entry at 0 decoded from the rewritten cells.
C33_DayTwoProgram ==
    net.input = Day2 =>
        /\ program.pc # "panicked" /\ net.program02.pc # "panicked"
        /\ steps >= 3 => RunOver(program) /\ RunOver(net.program02)
        /\ RunOver(program) =>
              /\ program.halted
              /\ program.memory =
                    <<3500, 9, 10, 70, 2, 3, 11, 0, 99, 30, 40, 50>>
        /\ (last.kind = "iter" /\ last.pre.ip = 0) =>
              /\ program.memory[4] = 70
              /\ program.instructions[0].op = "Add"
              /\ program.instructions[0].params[3] = Positional(70)
        /\ RunOver(net.program02) =>
              /\ net.program02.ip = 8
              /\ net.program02.memory =
                    <<3500, 9, 10, 70, 2, 3, 11, 0, 99, 30, 40, 50>>

\* both machines have returned from run with 3500 at address 0
C33_Witness ==
    /\ net.input = Day2
    /\ RunOver(program) /\ RunOver(net.program02)
    /\ program.halted
    /\ program.memory[1] = 3500 /\ program.memory[4] = 70
    /\ net.program02.memory[1] = 3500 /\ net.program02.memory[4] = 70
    /\ net.program02.instructions[0].params = <<9, 10, 3>>

\* what the three-way compare program writes for the input v
ThreeWay == IF net.v < 8 THEN 999 ELSE IF net.v = 8 THEN 1000 ELSE 1001

\* C34: for the program of test_day5_larger_example and every input v
\* neither machine aborts, run returns within ten iterations, nothing is
\* written before the single Out, and when run has returned the machine
\* stands at its Halt (the day09 machine with halted set) with exactly one
\* output: 999 if v < 8, 1000 if v = 8, 1001 if v > 8.
C34_ThreeWayCompare ==
    net.input = Larger_example =>
        /\ program.pc # "panicked" /\ net.program5.pc # "panicked"
        /\ steps >= 10 => RunOver(program) /\ RunOver(net.program5)
        /\ IsPrefix(program.output, <<ThreeWay>>)
        /\ IsPrefix(net.program5.output, <<ThreeWay>>)
        /\ RunOver(program) =>
              /\ program.halted
              /\ program.ip = 46
              /\ program.output = <<ThreeWay>>
        /\ RunOver(net.program5) =>
              /\ net.program5.ip = 46
              /\ net.program5.output = <<ThreeWay>>

\* the test has written 1001 for the input 9 on both machines
C34_Witness ==
    /\ net.input = Larger_example /\ net.v = 9
    /\ RunOver(program) /\ RunOver(net.program5)
    /\ program.halted
    /\ program.output = <<1001>>
    /\ net.program5.output = <<1001>>

\* C35: if no two cached instruction spans have overlapped so far in the
\* run, then after every completed loop iteration, and so after every
\* write, every entry of the cache equals the decoding of the current
\* memory at its address.
C35_NoOverlapKeepsCacheFresh ==
    (~last.over /\ program.pc # "panicked") =>
        \A a \in DOMAIN program.instructions :
            \A d \in {Decoded(program, a)} :
                /\ d.ok
                /\ d.op = program.instructions[a]
                /\ d.p.memory = program.memory

\* no spans have overlapped and the last instruction stored into the span
\* of a cached instruction, whose entry was replaced by the new decoding
C35_Witness ==
    /\ ~last.over
    /\ Executed /\ Stores
    /\ \E start \in StoreHit :
          /\ start \in DOMAIN program.instructions
          /\ program.instructions[start] # CacheAtWrite[start]
          /\ Decoded(program, start).op = program.instructions[start]

\* C36: lift applied to an address inside memory never aborts its caller,
\* whatever integer the cell holds: it returns a decoded instruction of a
\* known opcode or it returns None.
C36_DecodingIsTotal ==
    (ret.kind = "lift" /\ ULt(ret.address, Len(ret.pre.memory))) =>
        /\ ret.ok
        /\ m.pc # "panicked"
        /\ ret.op = None \/ ret.op.op \in {NameOf(o) : o \in KnownOps}

C38_Day05ConsumesInPushOrder ==
    (net.input = TwoIn /\ RunOver(net.program5)
        /\ net.program5.pc # "panicked") =>
        /\ net.program5.memory[8] = net.args[1]
        /\ net.program5.memory[9] = net.args[2]

\* the day07 machine is inside run at an Out in Immediate mode (word 104)
\* that has its operand cell
AtOutImmediate7(p) ==
    /\ Running(p)
    /\ p.ip + 2 <= Len(p.memory)
    /\ p.memory[p.ip + 1] = 104

\* C39: in the day07 VM an iteration of run at an Out in Immediate mode
\* (word 104) appends the literal operand to the output and advances ip by 2
\* without aborting, for every signed literal, negative ones included.
C39_OutImmediateAnyLiteral ==
    [][AtOutImmediate7(cpu) =>
          /\ cpu'.pc # "panicked"
          /\ cpu'.output = Append(cpu.output, cpu.memory[cpu.ip + 2])
          /\ cpu'.ip = cpu.ip + 2]_cpu

====
